---------------------------- MODULE Spec2Model ----------------------------
(***************************************************************************)
(* A model of the edge rate-limiting worker (erfianugrah/do-rl-worker):    *)
(* the rule matcher and condition evaluator (condition-evaluator.js), the  *)
(* fingerprinter (fingerprint.js), the RateLimiter durable object with its *)
(* sliding-window counter (rate-limiter.js), and the request pipeline of   *)
(* the worker (index.js, rate-limit-handler.js), and the config storage    *)
(* (config-storage.js).                                                    *)
(*                                                                         *)
(* Strings the code inspects are sequences of one-character strings, so    *)
(* that startsWith, endsWith, join and template concatenation are computed *)
(* and not assumed.  Times are milliseconds, as Date.now() returns them.   *)
(***************************************************************************)
EXTENDS Integers, Sequences, FiniteSets, TLC

VARIABLES
    clock,        \* Date.now(), in milliseconds
    storage,      \* RateLimiter state.storage: CounterKey -> stored timestamp list
    inflight,     \* requests inside RateLimiter.fetch, suspended at an await
    log,          \* history of the counter transactions, in execution order
    fpOut,        \* fingerprint specification: the calls made and their results
    mIn,          \* matcher specification: the input [request, rules]
    mPos,         \* matcher: index of the next rule of config.rules
    mSt,          \* matcher: lastLogOrSimulateAction, lastElseAction, returned match
    mRet,         \* matcher: <<v>> once findMatchingRule has returned v
    mSeen,        \* matcher: indices of the rules whose conditions were evaluated
    evalOut,      \* evaluator specification: the evaluations made and their outcomes
    cachedConfig, \* pipeline: the rules of the cached config snapshot
    lastConfigFetch, \* pipeline: when the cached snapshot was fetched
    responses,    \* pipeline: the responses sent to the clients, in order
    cfgStore,     \* ConfigStorage state.storage: the values under 'rules' and 'config'
    cfgOut        \* ConfigStorage: the requests served and their responses, in order

counterVars == <<storage, inflight, log>>
matchVars == <<mIn, mPos, mSt, mRet, mSeen, evalOut>>
pipeVars == <<cachedConfig, lastConfigFetch, responses, cfgStore, cfgOut>>
vars == <<clock, counterVars, fpOut, matchVars, pipeVars>>

---------------------------------------------------------------------------
(* Bounds of the model *)

\* number of 500 ms clock steps a behaviour may take
MaxTicks == 4
\* number of requests the RateLimiter object receives in a behaviour
MaxReqs == 3
\* number of requests suspended inside RateLimiter.fetch at the same time
MaxInflight == 2

\* milliseconds in a second: the factor of period * 1000 and Date.now() / 1000
MsPerSecond == 1000

\* granularity of the modelled clock, in milliseconds
TickMs == MsPerSecond \div 2

---------------------------------------------------------------------------
(* Strings and JavaScript values *)

\* JavaScript null (Headers.get of an absent header) and undefined
Null == <<"<null>">>
Undefined == <<"<undefined>">>
Empty == <<>>

IsNullish(v) == v = Null \/ v = Undefined

\* a || b on strings: the first one that is not null, undefined or ""
OrElse(a, b) == IF IsNullish(a) \/ a = Empty THEN b ELSE a

\* A JSON number as the value of a leaf: the digits it prints, tagged so that
\* it is no string (5 !== "5")
Number(digits) == <<"<number>">> \o digits
IsNumber(v) == Len(v) > 0 /\ v[1] = "<number>"

\* String(v)
Str(v) ==
    IF v = Null THEN <<"n", "u", "l", "l">>
    ELSE IF v = Undefined THEN <<"u", "n", "d", "e", "f", "i", "n", "e", "d">>
    ELSE IF IsNumber(v) THEN Tail(v)
    ELSE v

StartsWith(a, b) == Len(b) <= Len(a) /\ SubSeq(a, 1, Len(b)) = b
EndsWith(a, b) == Len(b) <= Len(a) /\ SubSeq(a, Len(a) - Len(b) + 1, Len(a)) = b
Includes(a, b) == \E i \in 0..(Len(a) - Len(b)) : SubSeq(a, i + 1, i + Len(b)) = b

RECURSIVE Join(_, _)
\* components.join(sep)
Join(parts, sep) ==
    IF Len(parts) = 0 THEN <<>>
    ELSE IF Len(parts) = 1 THEN parts[1]
    ELSE parts[1] \o sep \o Join(Tail(parts), sep)

RECURSIVE DigitsOf(_)
\* n.toString() for a non-negative integer
DigitsOf(n) ==
    LET d == <<"0", "1", "2", "3", "4", "5", "6", "7", "8", "9">>[(n % 10) + 1]
    IN  IF n < 10 THEN <<d>> ELSE DigitsOf(n \div 10) \o <<d>>

Max(a, b) == IF a >= b THEN a ELSE b
Min(a, b) == IF a <= b THEN a ELSE b

---------------------------------------------------------------------------
(* Requests *)

\* string literals used by the requests and rules of the model
S_GET == <<"G", "E", "T">>
S_POST == <<"P", "O", "S", "T">>
S_api == <<"/", "a", "p", "i">>
S_apix == <<"/", "a", "p", "i", "/", "x">>
S_home == <<"/", "h", "o", "m", "e">>
S_info == <<"/", "_", "r", "a", "t", "e", "l", "i", "m", "i", "t">>
S_origin == <<"h", "t", "t", "p", "s", ":", "/", "/", "h">>
S_ip1 == <<"1", ".", "2", ".", "3", ".", "4">>
S_ip2 == <<"1", ".", "2", ".", "3", ".", "5">>
S_ua1 == <<"u", "a", "1">>
S_ua2 == <<"u", "a", "2">>
S_json == <<"a", "p", "p", "l", "i", "c", "a", "t", "i", "o", "n", "/", "j", "s", "o", "n">>
S_html == <<"t", "e", "x", "t", "/", "h", "t", "m", "l">>
S_unknown == <<"u", "n", "k", "n", "o", "w", "n">>

\* A request: its method, the pathname of its URL, its headers (lower-cased
\* name -> value) and the cf object of the connection (dotted path -> value).
\* body is the payload (Null when the request has none) and bodyUsed tells
\* whether it was already read.
MkRequest(method, pathname, headers, cf, body, bodyUsed) ==
    [method |-> method, pathname |-> pathname, headers |-> headers, cf |-> cf,
     body |-> body, bodyUsed |-> bodyUsed]

\* request.headers.get(name): null when the header is absent
HeaderGet(request, name) ==
    IF name \in DOMAIN request.headers THEN request.headers[name] ELSE Null

\* request.url
UrlOf(request) == S_origin \o request.pathname

\* getNestedValue(new URL(request.url), prop)
UrlProp(request, prop) ==
    CASE prop = "pathname" -> request.pathname
      [] prop = "href" -> UrlOf(request)
      [] prop = "hostname" -> <<"h">>
      [] OTHER -> Undefined

\* getNestedValue(cf, path): undefined when cf or the path is absent
CfGet(cf, path) == IF path \in DOMAIN cf THEN cf[path] ELSE Undefined

\* a request object that carries no cf (a request built with new Request)
NoCf == [p \in {} |-> Empty]

---------------------------------------------------------------------------
(* Condition evaluator: condition-evaluator.js *)

\* A field or parameter name, split at its namespace prefix: "headers.x" is
\* F("headers", "x"), a bare name such as "method" is F("", "method").
F(ns, name) == [ns |-> ns, name |-> name]

Leaf(field, operator, value) ==
    [type |-> "leaf", field |-> field, operator |-> operator, value |-> value,
     logic |-> "", conditions |-> <<>>]
Group(logic, conditions) ==
    [type |-> "group", field |-> F("", ""), operator |-> "", value |-> Empty,
     logic |-> logic, conditions |-> conditions]
Operator(logic) ==
    [type |-> "operator", field |-> F("", ""), operator |-> "", value |-> Empty,
     logic |-> logic, conditions |-> <<>>]

RECURSIVE UpToComma(_)
\* s.split(",")[0]
UpToComma(s) ==
    IF s = <<>> \/ Head(s) = "," THEN <<>> ELSE <<Head(s)>> \o UpToComma(Tail(s))

RECURSIVE Trim(_)
\* s.trim(), for the blanks of a header value
Trim(s) ==
    IF s = <<>> THEN s
    ELSE IF Head(s) = " " THEN Trim(Tail(s))
    ELSE IF s[Len(s)] = " " THEN Trim(SubSeq(s, 1, Len(s) - 1))
    ELSE s

\* request.headers.get("x-forwarded-for")?.split(",")[0].trim()
ForwardedFor(request) ==
    LET h == HeaderGet(request, "x-forwarded-for")
    IN  IF h = Null THEN Undefined ELSE Trim(UpToComma(h))

\* fieldFunctions.clientIP
fieldClientIP(request) ==
    LET xff == ForwardedFor(request)
        a == OrElse(HeaderGet(request, "true-client-ip"),
                    HeaderGet(request, "cf-connecting-ip"))
        b == OrElse(a, xff)
    IN  OrElse(b, CfGet(request.cf, "clientIp"))

RECURSIVE SplitAt(_, _)
\* s.split(sep), for a separator of one character
SplitAt(s, sep) ==
    IF \A i \in 1..Len(s) : s[i] # sep THEN <<s>>
    ELSE LET k == CHOOSE i \in 1..Len(s) : s[i] = sep /\ \A j \in 1..(i - 1) : s[j] # sep
         IN  <<SubSeq(s, 1, k - 1)>> \o SplitAt(SubSeq(s, k + 1, Len(s)), sep)

DigitChars == <<"0", "1", "2", "3", "4", "5", "6", "7", "8", "9">>
IsDigit(c) == \E k \in 1..10 : DigitChars[k] = c
DigitValue(c) == (CHOOSE k \in 1..10 : DigitChars[k] = c) - 1

RECURSIVE LeadingDigits(_)
\* the digits a number parser reads at the start of s
LeadingDigits(s) ==
    IF s = <<>> \/ ~IsDigit(Head(s)) THEN <<>>
    ELSE <<Head(s)>> \o LeadingDigits(Tail(s))

RECURSIVE NatOf(_)
NatOf(d) ==
    IF d = <<>> THEN 0 ELSE NatOf(SubSeq(d, 1, Len(d) - 1)) * 10 + DigitValue(d[Len(d)])

\* parseInt(v, 10) and parseFloat(v) on the unsigned whole numbers of the
\* model: <<n>>, or <<>> for NaN
ParseNumber(v) ==
    LET d == LeadingDigits(Str(v)) IN IF d = <<>> THEN <<>> ELSE <<NatOf(d)>>

\* Number(s), the conversion of 32 - bits: "" is 0, a string that is not all
\* digits is NaN
ToNumber(s) ==
    IF s = <<>> THEN <<0>>
    ELSE IF LeadingDigits(s) = s THEN <<NatOf(s)>> ELSE <<>>

\* A 32-bit word (the operands of <<, ~, & and >>> are taken modulo 2^32) is
\* kept as its two 16-bit halves.
Half == 2 ^ 16
Word(hi, lo) == [hi |-> hi, lo |-> lo]

\* (int << 8) + oct, modulo 2^32
ShiftAdd(int, oct) ==
    LET lo == (int.lo % 256) * 256 + oct
        hi == (int.hi % 256) * 256 + (int.lo \div 256) + (lo \div Half)
    IN  Word(hi % Half, lo % Half)

RECURSIVE octetsLoop(_, _, _)
\* the reduce of isIPInCIDR over the parts of an address: int is <<>> once
\* it is NaN (NaN << 8 is 0, and a number plus NaN is NaN)
octetsLoop(parts, i, int) ==
    IF i > Len(parts) THEN int
    ELSE LET oct == ParseNumber(parts[i])
             word == IF int = <<>> THEN Word(0, 0) ELSE int[1]
         IN  octetsLoop(parts, i + 1,
                        IF oct = <<>> THEN <<>> ELSE <<ShiftAdd(word, oct[1])>>)

\* ip.split(".").reduce((int, oct) => (int << 8) + parseInt(oct, 10), 0) >>> 0
ipToInt(ip) ==
    LET int == octetsLoop(SplitAt(ip, "."), 1, <<Word(0, 0)>>)
    IN  IF int = <<>> THEN Word(0, 0) ELSE int[1]

\* the mask with the low bits set, as isIPInCIDR never computes it
lowBitsMask(bits) ==
    LET k == IF bits = <<>> \/ bits[1] > 32 THEN 0 ELSE 32 - bits[1]
    IN  IF k <= 16 THEN Word(0, 2 ^ k - 1) ELSE Word(2 ^ (k - 16) - 1, Half - 1)

\* ~(2 ** (32 - bits) - 1): bits is <<n>> or <<>> for NaN; ~NaN is -1, and
\* for more than 32 bits the power is a fraction, which ~ takes for 0
cidrMask(bits) ==
    LET k == IF bits = <<>> \/ bits[1] > 32 THEN 0 ELSE 32 - bits[1]
        low == IF k <= 16 THEN Word(0, 2 ^ k - 1) ELSE Word(2 ^ (k - 16) - 1, Half - 1)
    IN  Word(Half - 1 - low.hi, Half - 1 - low.lo)

RECURSIVE AndBits(_, _, _)
\* x & y on n bits
AndBits(x, y, n) ==
    IF n = 0 THEN 0
    ELSE (x % 2) * (y % 2) + 2 * AndBits(x \div 2, y \div 2, n - 1)

\* a & b on 32-bit words
And32(a, b) == Word(AndBits(a.hi, b.hi, 16), AndBits(a.lo, b.lo, 16))

\* isIPInCIDR(ip, cidr)
isIPInCIDR(ip, cidr) ==
    LET parts == SplitAt(cidr, "/")
        bits == IF Len(parts) < 2 THEN <<32>> ELSE ToNumber(parts[2])
        mask == cidrMask(bits)
    IN  And32(ipToInt(ip), mask) = And32(ipToInt(parts[1]), mask)

\* BODY_SIZE_LIMIT, 512 KiB
BODY_SIZE_LIMIT == 524288

\* a condition object without a field
NoField == F("<undefined>", "")

\* the names fieldFunctions holds, which are the fields without a prefix
BareFields == {"clientIP", "method", "url", "body", "headers", "cf"}

\* fieldFunctions.body: the text of the body, "" when reading it fails (a
\* request without a body, or one whose body was read)
fieldBody(request) ==
    IF request.bodyUsed \/ request.body = Null THEN Empty
    ELSE SubSeq(request.body, 1, Min(Len(request.body), BODY_SIZE_LIMIT))

\* JSON.parse(text), for the bodies of the model (an object with one member,
\* whose name is one character and whose value is a string, or text that is
\* no JSON): <<[key, value]>>, or <<>> for the SyntaxError
JsonParse(text) ==
    LET n == Len(text) IN
    IF /\ n >= 8
       /\ text[1] = "{" /\ text[2] = "\"" /\ text[4] = "\"" /\ text[5] = ":"
       /\ text[6] = "\"" /\ text[n - 1] = "\"" /\ text[n] = "}"
       /\ \A i \in 7..(n - 2) : text[i] # "\""
    THEN <<[key |-> text[3], value |-> SubSeq(text, 7, n - 2)]>>
    ELSE <<>>

\* getNestedValue(JSON.parse(bodyContent), pointer)
BodyGet(request, pointer) ==
    LET doc == JsonParse(fieldBody(request))
    IN  IF doc # <<>> /\ doc[1].key = pointer THEN doc[1].value ELSE Undefined

\* the left-hand side evaluateCondition computes for a field
ResolveField(request, field) ==
    CASE field.ns = "url" -> UrlProp(request, field.name)
      [] field.ns = "headers" -> HeaderGet(request, field.name)
      [] field.ns = "cf" -> CfGet(request.cf, field.name)
      [] field.ns = "body" -> BodyGet(request, field.name)
      [] field.ns = "" /\ field.name = "clientIP" -> fieldClientIP(request)
      [] field.ns = "" /\ field.name = "method" -> request.method
      [] field.ns = "" /\ field.name = "url" -> UrlOf(request)
      [] field.ns = "" /\ field.name = "body" -> fieldBody(request)
      [] field.ns = "" /\ field.name = "headers" -> HeaderGet(request, "undefined")
      [] OTHER -> Undefined

\* whether computing the left-hand side throws: field.startsWith on a missing
\* field, JSON.parse on a body that is no JSON, path.split in getNestedValue
\* when fieldFunctions.cf is called without a property
ResolveThrows(request, field) ==
    \/ field = NoField
    \/ field.ns = "body" /\ JsonParse(fieldBody(request)) = <<>>
    \/ field.ns = "" /\ field.name = "cf"

OperatorNames ==
    {"eq", "ne", "gt", "ge", "lt", "le", "contains", "not_contains", "starts_with",
     "ends_with", "matches"}

\* new RegExp(b) throws a SyntaxError: for the patterns of the model, which
\* are literal text or hold a group that is not closed
RegExpThrows(b) ==
    \E i \in 1..Len(b) : b[i] = "(" /\ \A j \in (i + 1)..Len(b) : b[j] # ")"

\* parseFloat(a) < parseFloat(b): false when either is NaN
Less(a, b) == a # <<>> /\ b # <<>> /\ a[1] < b[1]

\* operatorFunctions.eq(a, b, field)
eq(a, b, field) ==
    IF field = F("", "clientIP")
    THEN IF Includes(b, <<"/">>) THEN isIPInCIDR(a, b) ELSE a = b
    ELSE a = b

\* operatorFunctions[operator](a, b, field), when it returns
ApplyOperator(operator, a, b, field) ==
    CASE operator = "eq" -> eq(a, b, field)
      [] operator = "ne" -> a # b
      [] operator = "gt" -> Less(ParseNumber(b), ParseNumber(a))
      [] operator = "ge" -> Less(ParseNumber(b), ParseNumber(a))
                            \/ (ParseNumber(a) # <<>> /\ ParseNumber(a) = ParseNumber(b))
      [] operator = "lt" -> Less(ParseNumber(a), ParseNumber(b))
      [] operator = "le" -> Less(ParseNumber(a), ParseNumber(b))
                            \/ (ParseNumber(a) # <<>> /\ ParseNumber(a) = ParseNumber(b))
      [] operator = "contains" -> Includes(Str(a), Str(b))
      [] operator = "not_contains" -> ~Includes(Str(a), Str(b))
      [] operator = "starts_with" -> StartsWith(Str(a), Str(b))
      [] operator = "ends_with" -> EndsWith(Str(a), Str(b))
      [] operator = "matches" -> ~RegExpThrows(Str(b)) /\ Includes(Str(a), Str(b))
      [] OTHER -> FALSE

\* whether operatorFunctions[operator](a, b, field) throws: eq on clientIP
\* calls b.includes, which a number, null and undefined do not have, and
\* isIPInCIDR calls ip.split on the address
OperatorThrows(operator, a, b, field) ==
    /\ operator = "eq"
    /\ field = F("", "clientIP")
    /\ \/ IsNumber(b) \/ IsNullish(b)
       \/ Includes(b, <<"/">>) /\ IsNullish(a)

\* What a call of evaluateCondition(request, condition) comes to: "true",
\* "false", or "throw" when it rejects
conditionOutcome(request, condition) ==
    IF ResolveThrows(request, condition.field) THEN "throw"
    ELSE IF ~(condition.field.ns \in {"url", "headers", "cf", "body"}
              \/ (condition.field.ns = "" /\ condition.field.name \in BareFields))
    THEN "false"
    ELSE IF condition.operator \notin OperatorNames THEN "false"
    ELSE LET a == ResolveField(request, condition.field) IN
         IF OperatorThrows(condition.operator, a, condition.value, condition.field)
         THEN "throw"
         ELSE IF ApplyOperator(condition.operator, a, condition.value, condition.field)
              THEN "true" ELSE "false"

\* evaluateCondition(request, condition): one leaf, when the call returns
evaluateCondition(request, condition) == conditionOutcome(request, condition) = "true"

RECURSIVE evalLoop(_, _, _, _, _)
\* the for loop of evaluateConditions from index i on, under the current logic
\* and with the result so far
evalLoop(request, conditions, i, logic, result) ==
    IF i > Len(conditions) THEN result
    ELSE LET c == conditions[i] IN
         IF c.type = "operator"
         THEN evalLoop(request, conditions, i + 1, c.logic, result)
         ELSE LET r == IF c.type = "group"
                       THEN evalLoop(request, c.conditions, 1, "and", TRUE)
                       ELSE evaluateCondition(request, c)
              IN  IF logic = "and"
                  THEN IF result /\ r
                       THEN evalLoop(request, conditions, i + 1, logic, TRUE)
                       ELSE FALSE
                  ELSE IF result \/ r
                       THEN TRUE
                       ELSE evalLoop(request, conditions, i + 1, logic, FALSE)

\* evaluateConditions(request, conditions, logic)
evaluateConditions(request, conditions, logic) ==
    evalLoop(request, conditions, 1, logic, logic = "and")

---------------------------------------------------------------------------
(* Rules and the rule matcher: condition-evaluator.js, config-manager.js *)

Action(type) == [type |-> type, statusCode |-> 0, body |-> Empty, bodyType |-> ""]
CustomResponse(statusCode, body, bodyType) ==
    [type |-> "customResponse", statusCode |-> statusCode, body |-> body,
     bodyType |-> bodyType]
\* an absent action (rule.elseAction undefined)
NoAction == Action("")

Branch(conditions, logic, action) ==
    [conditions |-> conditions, logic |-> logic, action |-> action]
\* an absent initialMatch
NoBranch == Branch(<<>>, "", NoAction)

\* A rule: name, rateLimit {limit, period}, fingerprint.parameters, initialMatch,
\* elseIfActions and elseAction.  logic "" stands for an absent logic.
MkRule(name, limit, period, parameters, initialMatch, elseIfActions, elseAction) ==
    [name |-> name, limit |-> limit, period |-> period, parameters |-> parameters,
     initialMatch |-> initialMatch, elseIfActions |-> elseIfActions,
     elseAction |-> elseAction]

\* a validation that only asks for the initialMatch
isValidWithInitialMatch(rule) == rule.initialMatch # NoBranch

\* isValidRuleStructure(rule)
isValidRuleStructure(rule) ==
    IF rule.initialMatch = NoBranch THEN FALSE
    ELSE IF Len(rule.elseIfActions) > 0 /\ rule.elseAction = NoAction THEN FALSE
    ELSE TRUE

\* the object findMatchingRule returns: { ...rule, actionType, action }
Matched(rule, action) == [rule |-> rule, actionType |-> action.type, action |-> action]

\* a matcher for which only log is non-terminal
IsLogOnly(type) == type = "log"

\* a matcher for which only simulate is non-terminal
IsSimulateOnly(type) == type = "simulate"

IsLogOrSimulate(type) == type = "log" \/ type = "simulate"

\* x || "and"
LogicOrAnd(logic) == IF logic = "" THEN "and" ELSE logic

RECURSIVE elseIfLoop(_, _, _, _)
\* the loop over rule.elseIfActions from index j on; st is the walk's state
\* [log, else, res, emitted]: log, else and res are sequences of at most one
\* Matched object, emitted the names of the rules for which the line
\* "matched with log/simulate action, continuing evaluation" was logged
elseIfLoop(request, rule, j, st) ==
    IF j > Len(rule.elseIfActions) THEN st
    ELSE LET e == rule.elseIfActions[j] IN
         IF evaluateConditions(request, e.conditions, LogicOrAnd(e.logic))
         THEN IF IsLogOrSimulate(e.action.type)
              THEN elseIfLoop(request, rule, j + 1,
                              [st EXCEPT !.log = <<Matched(rule, e.action)>>,
                                         !.emitted = Append(@, rule.name)])
              ELSE [st EXCEPT !.res = <<Matched(rule, e.action)>>]
         ELSE elseIfLoop(request, rule, j + 1, st)

\* the initial match of findMatchingRule: always evaluated under "and"
initialMatches(request, rule) ==
    evaluateConditions(request, rule.initialMatch.conditions, "and")

\* one iteration of the for loop of findMatchingRule over config.rules
ruleStep(request, rule, st) ==
    IF ~isValidRuleStructure(rule) THEN st
    ELSE LET afterMatch ==
                 IF initialMatches(request, rule)
                 THEN IF IsLogOrSimulate(rule.initialMatch.action.type)
                      THEN [st EXCEPT !.log = <<Matched(rule, rule.initialMatch.action)>>,
                                      !.emitted = Append(@, rule.name)]
                      ELSE [st EXCEPT !.res = <<Matched(rule, rule.initialMatch.action)>>]
                 ELSE IF Len(rule.elseIfActions) > 0
                      THEN elseIfLoop(request, rule, 1, st)
                      ELSE st
         IN  IF afterMatch.res # <<>> THEN afterMatch
             ELSE IF rule.elseAction # NoAction
                  THEN [afterMatch EXCEPT !.else = <<Matched(rule, rule.elseAction)>>]
                  ELSE afterMatch

\* a fallback that prefers the log/simulate match
afterWalkLogFirst(st) == IF st.log # <<>> THEN st.log ELSE st.else

\* what findMatchingRule returns after the loop: the else fallback first
afterWalk(st) == IF st.else # <<>> THEN st.else ELSE st.log

WalkStart == [log |-> <<>>, else |-> <<>>, res |-> <<>>, emitted |-> <<>>]

RECURSIVE walkFrom(_, _, _, _)
walkFrom(request, rules, i, st) ==
    IF st.res # <<>> THEN st.res
    ELSE IF i > Len(rules) THEN afterWalk(st)
    ELSE walkFrom(request, rules, i + 1, ruleStep(request, rules[i], st))

\* findMatchingRule(request, config): <<>> is null, <<m>> a match
findMatchingRule(request, config) == walkFrom(request, config, 1, WalkStart)

RECURSIVE walkEmits(_, _, _, _)
\* the log records of observational matches the walk has written when it ends
walkEmits(request, rules, i, st) ==
    IF st.res # <<>> \/ i > Len(rules) THEN st.emitted
    ELSE walkEmits(request, rules, i + 1, ruleStep(request, rules[i], st))

\* the rules findMatchingRule(request, config) logs as matched with a log or
\* simulate action
matchRecords(request, config) == walkEmits(request, config, 1, WalkStart)

---------------------------------------------------------------------------
(* Fingerprinter: fingerprint.js, utils.js *)


\* hashValue(value): the SHA-256 hex digest, modelled as a collision-free
\* digest: the marker "#" followed by the hashed text.
hashValue(value) == <<"#">> \o value

\* getRequestBody(request): clone() throws on a used body and getReader()
\* on an absent one; both are caught and give ""
getRequestBody(request) ==
    IF request.bodyUsed \/ request.body = Null THEN Empty
    ELSE hashValue(SubSeq(request.body, 1, Min(Len(request.body), BODY_SIZE_LIMIT)))

\* getClientIP(request) of fingerprint.js
getClientIP(request) ==
    OrElse(OrElse(OrElse(HeaderGet(request, "cf-connecting-ip"),
                         HeaderGet(request, "true-client-ip")),
                  ForwardedFor(request)),
           S_unknown)

\* the value generateFingerprint resolves for one parameter, before toString
fingerprintValue(request, param, cfData, clientIP) ==
    CASE param.ns = "cf" -> CfGet(cfData, param.name)
      [] param.ns = "headers" -> HeaderGet(request, param.name)
      [] param.ns = "url" -> UrlProp(request, param.name)
      [] param.ns = "" /\ param.name = "method" -> request.method
      [] param.ns = "" /\ param.name = "url" -> UrlOf(request)
      [] param.ns = "" /\ param.name = "body" -> getRequestBody(request)
      [] param.ns = "" /\ param.name = "clientIP" -> clientIP
      [] OTHER -> Undefined

\* value !== undefined && value !== null ? value.toString() : ""
componentOf(value) == IF IsNullish(value) THEN Empty ELSE value

\* components.includes(x)
SeqIncludes(seq, x) == \E i \in 1..Len(seq) : seq[i] = x

\* The components generateFingerprint joins: the parameters' values, the client
\* IP put in front unless some component equals it, and the time in seconds.
fingerprintComponents(request, parameters, cfData, nowMs) ==
    LET clientIP == getClientIP(request)
        timestamp == nowMs \div MsPerSecond
        components == [i \in 1..Len(parameters) |->
                         componentOf(fingerprintValue(request, parameters[i], cfData, clientIP))]
        withIP == IF SeqIncludes(components, clientIP) THEN components
                  ELSE <<clientIP>> \o components
    IN  withIP \o <<DigitsOf(timestamp)>>

\* a fingerprint config without a parameters list
AbsentParameters == <<F("<undefined>", "")>>

\* fingerprintConfig.parameters || ["clientIP"]
parametersOrDefault(parameters) ==
    IF parameters = AbsentParameters THEN <<F("", "clientIP")>> ELSE parameters

\* generateFingerprint(request, env, fingerprintConfig, originalCfData), called
\* when Date.now() is nowMs
generateFingerprint(request, parameters, cfData, nowMs) ==
    hashValue(Join(fingerprintComponents(request, parametersOrDefault(parameters),
                                         cfData, nowMs), <<"|">>))

---------------------------------------------------------------------------
(* RateLimiter durable object: rate-limiter.js *)

S_rate_limit == <<"r", "a", "t", "e", "_", "l", "i", "m", "i", "t", ":">>
S_fingerprint == <<":", "f", "i", "n", "g", "e", "r", "p", "r", "i", "n", "t", ":">>
S_default == <<":", "d", "e", "f", "a", "u", "l", "t">>

\* getClientIdentifier(request, rule, cfData): the CounterKey
getClientIdentifier(request, rule, cfData, nowMs) ==
    IF rule.parameters = AbsentParameters \/ Len(rule.parameters) = 0
    THEN S_rate_limit \o rule.name \o S_default
    ELSE S_rate_limit \o rule.name \o S_fingerprint
         \o generateFingerprint(request, rule.parameters, cfData, nowMs)

\* parseRule(request): the rule of the X-Rate-Limit-Config header is accepted
parseRuleOk(rule) ==
    /\ rule.name # Empty
    /\ rule.limit # 0
    /\ rule.period # 0
    /\ rule.initialMatch.action.type # ""

\* a fixed-bucket counter: only the timestamps of the current bucket are kept
pruneBucket(timestamps, now, windowSize) ==
    SelectSeq(timestamps, LAMBDA ts : ts \div windowSize = now \div windowSize)

\* timestamps.filter((ts) => ts >= windowStart), windowStart = now - windowSize
pruneWindow(timestamps, now, windowSize) ==
    SelectSeq(timestamps, LAMBDA ts : ts >= now - windowSize)

\* an off-by-one admission test: timestamps.length <= limit
isAllowedUpTo(timestamps, limit) == Len(timestamps) <= limit

\* isAllowed = timestamps.length < limit
isAllowedFor(timestamps, limit) == Len(timestamps) < limit

\* the list persisted without the truncation
sliceNone(timestamps, limit) == timestamps

\* timestamps.slice(-limit)
sliceLast(timestamps, limit) ==
    IF Len(timestamps) > limit
    THEN SubSeq(timestamps, Len(timestamps) - limit + 1, Len(timestamps))
    ELSE timestamps

\* storage.get(key): the stored list, [] when nothing is stored
storageGet(store, key) == IF key \in DOMAIN store THEN store[key] ELSE <<>>

\* a put that is lost
storagePutLost(store, key, list) == store

\* a put that overwrites the list of every stored key
storagePutAll(store, key, list) == [k \in DOMAIN store \cup {key} |-> list]

\* storage.put(key, list)
storagePut(store, key, list) ==
    [k \in DOMAIN store \cup {key} |-> IF k = key THEN list ELSE store[k]]

\* a counter that records every request, the denied ones too
pushAlways(isAllowed, timestamps, now) == Append(timestamps, now)

\* if (isAllowed) { timestamps.push(now); }
pushNow(isAllowed, timestamps, now) ==
    IF isAllowed THEN Append(timestamps, now) ELSE timestamps

\* the reset time without its floor: oldestRequest + windowSize, as
\* SlidingWindowRateLimiter.getResetTime of the earlier counter returns it
getResetTime(oldestTimestamp, windowSize, now) == oldestTimestamp + windowSize

\* resetTime = Math.max(oldestTimestamp + windowSize, now + 1000)
resetTimeOf(oldestTimestamp, windowSize, now) ==
    Max(oldestTimestamp + windowSize, now + MsPerSecond)

\* checkRateLimit(clientIdentifier, rule, now) on the store: the verdict, the
\* list it persists and the store after the put
checkRateLimit(store, key, rule, now) ==
    LET windowSize == rule.period * MsPerSecond
        pruned == pruneWindow(storageGet(store, key), now, windowSize)
        allowed == isAllowedFor(pruned, rule.limit)
        pushed == pushNow(allowed, pruned, now)
        kept == sliceLast(pushed, rule.limit)
        oldest == IF Len(kept) = 0 \/ kept[1] = 0 THEN now ELSE kept[1]
    IN  [isAllowed |-> allowed,
         remaining |-> Max(0, rule.limit - Len(kept)),
         resetTime |-> resetTimeOf(oldest, windowSize, now),
         timestamps |-> kept,
         store |-> storagePut(store, key, kept)]

\* request.url.endsWith("/_ratelimit")
isInfoRequest(request) == EndsWith(UrlOf(request), S_info)

\* The request handleRateLimit sends to the RateLimiter object: a POST to the
\* same URL with the headers of the original request; the cf object travels in
\* the JSON payload, which RateLimiter.fetch reads before anything else.
rateLimiterRequest(request) ==
    MkRequest(S_POST, request.pathname, request.headers, NoCf, Empty, TRUE)

---------------------------------------------------------------------------
(* The RateLimiter object under concurrent requests *)

\* the wall clock when the behaviour starts: one second after the epoch
StartTime == MsPerSecond

Hdr(ip, ua) == [h \in {"cf-connecting-ip", "user-agent"} |->
                  IF h = "cf-connecting-ip" THEN ip ELSE ua]

\* the client requests of the model: two user agents behind one address, and a
\* second address
Client1 == MkRequest(S_GET, S_apix, Hdr(S_ip1, S_ua1), NoCf, Null, FALSE)
Client2 == MkRequest(S_GET, S_apix, Hdr(S_ip1, S_ua2), NoCf, Null, FALSE)
Client3 == MkRequest(S_GET, S_apix, Hdr(S_ip2, S_ua1), NoCf, Null, FALSE)
Clients == {Client1, Client2}

ApiMatch(action) ==
    Branch(<<Leaf(F("url", "pathname"), "starts_with", S_api)>>, "and", action)

\* Rule "a" keeps one counter for all clients and is stored once with limit 2
\* and once with limit 1 (the administrator edited it); rule "f" fingerprints
\* the client IP and the user agent.
RuleA2 == MkRule(<<"a">>, 2, 1, <<>>, ApiMatch(Action("rateLimit")), <<>>, NoAction)
RuleA1 == MkRule(<<"a">>, 1, 1, <<>>, ApiMatch(Action("rateLimit")), <<>>, NoAction)
RuleF == MkRule(<<"f">>, 1, 1, <<F("", "clientIP"), F("headers", "user-agent")>>,
                ApiMatch(Action("rateLimit")), <<>>, NoAction)
DoRules == {RuleA2, RuleA1, RuleF}

\* RateLimiter.fetch up to its suspension before the counter transaction:
\* the rule is parsed, now is taken from the clock, the CounterKey is computed
\* and the initial match is evaluated on the request the object received.
received(request, rule, nowMs) ==
    LET doReq == rateLimiterRequest(request)
    IN  [now |-> nowMs,
         key |-> getClientIdentifier(doReq, rule, request.cf, nowMs),
         limit |-> rule.limit,
         period |-> rule.period,
         info |-> isInfoRequest(doReq),
         matches |-> evaluateConditions(doReq, rule.initialMatch.conditions,
                                        LogicOrAnd(rule.initialMatch.logic))]

\* the other suspended requests that will use the key of request i
pendingOn(fl, i) == Cardinality({j \in 1..Len(fl) : j # i /\ fl[j].key = fl[i].key})

\* the entry the history keeps of one counter transaction: pending counts the
\* requests on the same key that were suspended while it ran; remaining and
\* resetTime are what checkRateLimit returned, retryAfterMs is the
\* Math.max(0, (resetTime - now) / 1000) of RateLimiter.fetch, in milliseconds
logEntry(r, before, res, pending) ==
    [key |-> r.key, now |-> r.now, limit |-> r.limit, period |-> r.period,
     allowed |-> res.isAllowed, before |-> before, after |-> res.timestamps,
     pending |-> pending, remaining |-> res.remaining, resetTime |-> res.resetTime,
     retryAfterMs |-> Max(0, res.resetTime - r.now), info |-> r.info]

RemoveAt(seq, i) == SubSeq(seq, 1, i - 1) \o SubSeq(seq, i + 1, Len(seq))

\* getClientIdentifier awaits crypto.subtle.digest exactly when the rule has
\* fingerprint parameters: only then can another request of the object run
\* between Date.now() and the counter transaction
suspendsForDigest(rule) ==
    rule.parameters # AbsentParameters /\ Len(rule.parameters) > 0

\* the matcher is not part of this specification
MatchIdle ==
    /\ mIn = <<>>
    /\ mPos = 0
    /\ mSt = WalkStart
    /\ mRet = <<>>
    /\ mSeen = {}
    /\ evalOut = <<>>

Init ==
    /\ clock = StartTime
    /\ storage = [k \in {} |-> <<>>]
    /\ inflight = <<>>
    /\ log = <<>>
    /\ fpOut = <<>>
    /\ MatchIdle
    /\ cachedConfig = <<>>
    /\ lastConfigFetch = 0
    /\ responses = <<>>
    /\ cfgStore = [rules |-> <<>>, config |-> <<>>]
    /\ cfgOut = <<>>

\* time passes
Tick ==
    /\ clock < StartTime + MaxTicks * TickMs
    /\ clock' = clock + TickMs
    /\ UNCHANGED <<counterVars, fpOut, matchVars, pipeVars>>

\* the counter transaction of a request r: checkRateLimit from its storage.get
\* to its storage.put, which no other event of the object interrupts
transact(r, pending) ==
    LET res == checkRateLimit(storage, r.key, r, r.now)
    IN  /\ storage' = res.store
        /\ log' = Append(log, logEntry(r, storageGet(storage, r.key), res, pending))

\* RateLimiter.fetch for a rule without fingerprint parameters: nothing is
\* awaited between Date.now() and the transaction, so the handler runs whole
DoHandle(request, rule) ==
    /\ Len(log) + Len(inflight) < MaxReqs
    /\ parseRuleOk(rule)
    /\ ~suspendsForDigest(rule)
    /\ LET r == received(request, rule, clock)
       IN  /\ r.matches \/ r.info
           /\ transact(r, 0)
    /\ UNCHANGED <<clock, inflight, fpOut, matchVars, pipeVars>>

\* RateLimiter.fetch for a rule with fingerprint parameters, up to the digest
\* it awaits: now is taken and the request suspends
DoReceive(request, rule) ==
    /\ Len(log) + Len(inflight) < MaxReqs
    /\ Len(inflight) < MaxInflight
    /\ parseRuleOk(rule)
    /\ suspendsForDigest(rule)
    /\ inflight' = Append(inflight, received(request, rule, clock))
    /\ UNCHANGED <<clock, storage, log, fpOut, matchVars, pipeVars>>

\* a suspended request resumes, in any order, and runs its transaction
DoTransact(i) ==
    /\ i \in 1..Len(inflight)
    /\ inflight[i].matches \/ inflight[i].info
    /\ transact(inflight[i], pendingOn(inflight, i))
    /\ inflight' = RemoveAt(inflight, i)
    /\ UNCHANGED <<clock, fpOut, matchVars, pipeVars>>

Next ==
    \/ Tick
    \/ \E request \in Clients, rule \in DoRules : DoHandle(request, rule)
    \/ \E request \in Clients, rule \in DoRules : DoReceive(request, rule)
    \/ \E i \in 1..MaxInflight : DoTransact(i)

Spec == Init /\ [][Next]_vars

---------------------------------------------------------------------------
(* Properties of the sliding-window counter *)

HistoryKeys == {log[i].key : i \in 1..Len(log)}
\* the transactions on one CounterKey, in execution order
HistoryOf(k) == SelectSeq(log, LAMBDA e : e.key = k)
WindowOf(e) == e.period * MsPerSecond

\* the transactions s..e of h ran under one limit and one period
SameRule(h, s, e) ==
    \A i \in s..e : h[i].limit = h[s].limit /\ h[i].period = h[s].period
\* their timestamps lie inside one period
InsideOnePeriod(h, s, e) ==
    \A i, j \in s..e : h[i].now - h[j].now < WindowOf(h[s])
\* every timestamp stored before transaction s is older than a period for each
\* of the transactions s..e
StartsFresh(h, s, e) ==
    \A n \in 1..Len(h[s].before) : \A i \in s..e :
        h[s].before[n] < h[i].now - WindowOf(h[s])
NonDecreasing(h) == \A i \in 1..(Len(h) - 1) : h[i].now <= h[i + 1].now
\* the number of allowed requests of h with a timestamp in [t, t + w)
AllowedIn(h, t, w) ==
    Cardinality({i \in 1..Len(h) : h[i].allowed /\ t <= h[i].now /\ h[i].now < t + w})
WindowBound(h) ==
    \A i \in 1..Len(h) :
        h[i].allowed => AllowedIn(h, h[i].now, WindowOf(h[i])) <= h[i].limit

\* C1: of N requests handled one after another on one CounterKey under one
\* rule, with timestamps inside one period and no younger timestamp stored
\* before them, the first min(N, limit) are allowed and all later ones denied.
C1_FirstLimitAllowed ==
    \A k \in HistoryKeys :
        LET h == HistoryOf(k) IN
        \A s \in 1..Len(h) : \A e \in s..Len(h) :
            (SameRule(h, s, e) /\ InsideOnePeriod(h, s, e) /\ StartsFresh(h, s, e))
            => \A i \in s..e : h[i].allowed <=> (i - s + 1 <= h[s].limit)

\* a run of more than limit requests inside one period, its last one denied
C1_Witness ==
    \E k \in HistoryKeys :
        LET h == HistoryOf(k) IN
        \E s \in 1..Len(h) : \E e \in s..Len(h) :
            /\ SameRule(h, s, e) /\ InsideOnePeriod(h, s, e) /\ StartsFresh(h, s, e)
            /\ e - s + 1 > h[s].limit
            /\ ~h[e].allowed

\* C2: for serialized requests on one CounterKey with non-decreasing
\* timestamps under one rule, every interval of one period holds at most
\* limit allowed requests.
C2_SlidingWindow ==
    \A k \in HistoryKeys :
        LET h == HistoryOf(k) IN
        (SameRule(h, 1, Len(h)) /\ NonDecreasing(h)) => WindowBound(h)

\* the window slid: a request was denied and a later one allowed, once the
\* oldest allowed request was a period old
C2_Witness ==
    \E k \in HistoryKeys :
        LET h == HistoryOf(k) IN
        /\ SameRule(h, 1, Len(h)) /\ NonDecreasing(h)
        /\ \E i, j, l \in 1..Len(h) :
              /\ i < j /\ j < l
              /\ h[i].allowed /\ ~h[j].allowed /\ h[l].allowed
              /\ h[l].now - h[i].now >= WindowOf(h[i])
              /\ h[l].now - h[j].now < WindowOf(h[i])

\* C3: the list a counter transaction persists has at most limit entries,
\* whatever list was stored before it.
C3_AtMostLimitStored ==
    /\ \A i \in 1..Len(log) : Len(log[i].after) <= log[i].limit
    /\ Len(log) > 0 => storageGet(storage, log[Len(log)].key) = log[Len(log)].after

\* a transaction found a list longer than its limit (written under a larger one)
C3_Witness == \E i \in 1..Len(log) : Len(log[i].before) > log[i].limit

\* C4: at the end of a counter transaction at time now every persisted
\* timestamp ts satisfies now - ts < period * 1000.
C4_StrictWindow ==
    \A i \in 1..Len(log) : \A n \in 1..Len(log[i].after) :
        log[i].now - log[i].after[n] < WindowOf(log[i])

\* each transaction loads the list the previous transaction on its key stored
SerialTransactions(h) == \A i \in 2..Len(h) : h[i].before = h[i - 1].after

AllowedBefore(h, i) ==
    {j \in 1..(i - 1) : h[j].allowed /\ h[j].now >= h[i].now - WindowOf(h[i])}

\* the verdict of every transaction follows from the history of its own key
OwnLimit ==
    \A k \in HistoryKeys :
        LET h == HistoryOf(k) IN
        SameRule(h, 1, Len(h)) =>
            \A i \in 1..Len(h) :
                h[i].allowed <=> (Cardinality(AllowedBefore(h, i)) < h[i].limit)

\* a step that runs a counter transaction leaves the list of every key other
\* than the transaction's own as it was
FrameStep ==
    (log' # log) =>
        \A k \in DOMAIN storage :
            k # log'[Len(log')].key => (k \in DOMAIN storage' /\ storage'[k] = storage[k])

\* two requests from one address with different user agents have different
\* CounterKeys under the parameters [clientIP, headers.user-agent]
DistinctKeys ==
    getClientIdentifier(rateLimiterRequest(Client1), RuleF, Client1.cf, clock)
        # getClientIdentifier(rateLimiterRequest(Client2), RuleF, Client2.cf, clock)

\* C8: a counter transaction on CounterKey k changes only the stored list of
\* k, clients whose fingerprints differ use different keys, and each client is
\* allowed its own limit requests, whatever the other keys received.
C8_OwnKeyOnly == [](OwnLimit /\ DistinctKeys) /\ [][FrameStep]_vars

\* under rule f (limit 1) the two user agents of one address were both allowed
\* at the same time, the second while the list of the first was stored
C8_Witness ==
    \E i, j \in 1..Len(log) :
        /\ i < j
        /\ log[i].key # log[j].key
        /\ StartsWith(log[i].key, S_rate_limit \o RuleF.name \o S_fingerprint)
        /\ StartsWith(log[j].key, S_rate_limit \o RuleF.name \o S_fingerprint)
        /\ log[i].now = log[j].now
        /\ log[i].allowed /\ log[j].allowed
        /\ log[i].limit = 1 /\ log[j].limit = 1
        /\ storageGet(storage, log[i].key) = <<log[i].now>>
        /\ storageGet(storage, log[j].key) = <<log[j].now>>

\* the timestamps of a list that a request at time t under the window w
\* still counts
CountedAt(timestamps, t, w) == SelectSeq(timestamps, LAMBDA ts : ts >= t - w)

\* the times of the model
Times == {StartTime + n * TickMs : n \in 0..(MaxTicks + 2 * (MsPerSecond \div TickMs))}

\* the last n entries of a list
LastN(timestamps, n) ==
    SubSeq(timestamps, Len(timestamps) - Min(n, Len(timestamps)) + 1, Len(timestamps))

\* C29: a denied counter decision appends nothing: the list persisted by a
\* denied transaction is the previously stored list with the expired
\* timestamps removed, cut to its most recent limit entries, so at no later
\* time does it count more requests than the stored list did, and repeated
\* denied requests never postpone the time at which the client is allowed
\* again.
C29_DeniedAppendsNothing ==
    \A i \in 1..Len(log) :
        ~log[i].allowed =>
            /\ log[i].after =
                   LastN(CountedAt(log[i].before, log[i].now, WindowOf(log[i])), log[i].limit)
            /\ \A t \in Times :
                   Len(CountedAt(log[i].after, t, WindowOf(log[i])))
                       <= Len(CountedAt(log[i].before, t, WindowOf(log[i])))

\* a denied transaction found more timestamps than the limit inside the
\* window: the limit of the rule was lowered
C29_Witness ==
    \E i \in 1..Len(log) :
        /\ ~log[i].allowed
        /\ Len(CountedAt(log[i].before, log[i].now, WindowOf(log[i]))) > log[i].limit

\* C29 as stated: the list persisted by a denied transaction equals the
\* previously stored list with expired timestamps removed.
C29_DeniedKeepsPruned ==
    \A i \in 1..Len(log) :
        ~log[i].allowed =>
            log[i].after = CountedAt(log[i].before, log[i].now, WindowOf(log[i]))

\* C30: after every counter transaction at time now, remaining is
\* max(0, limit - len(list)) and resetTime is
\* max(list[0] + period * 1000, now + 1000) on the persisted list, and every
\* denied verdict reports remaining 0 and a retryAfter of at least 1 second.
C30_RemainingAndReset ==
    \A i \in 1..Len(log) :
        /\ Len(log[i].after) >= 1
        /\ log[i].remaining = Max(0, log[i].limit - Len(log[i].after))
        /\ log[i].resetTime =
               Max(log[i].after[1] + log[i].period * 1000, log[i].now + 1000)
        /\ ~log[i].allowed => log[i].remaining = 0 /\ log[i].retryAfterMs >= 1000

\* a denial whose oldest timestamp leaves the window in less than a second:
\* the floor gives the reset time
C30_Witness ==
    \E i \in 1..Len(log) :
        /\ ~log[i].allowed
        /\ log[i].after[1] + log[i].period * 1000 < log[i].now + 1000
        /\ log[i].retryAfterMs = 1000

\* C36: a client that was denied and retries at or after the resetTime of
\* that denial, with no other request on the CounterKey in between and under
\* the same rule, is allowed.
C36_RetryAtResetAllowed ==
    \A k \in HistoryKeys :
        \A i \in 1..(Len(HistoryOf(k)) - 1) :
            (/\ ~HistoryOf(k)[i].allowed
             /\ SameRule(HistoryOf(k), i, i + 1)
             /\ HistoryOf(k)[i + 1].now >= HistoryOf(k)[i].resetTime)
            => HistoryOf(k)[i + 1].allowed

---------------------------------------------------------------------------
(* The fingerprinter called at different times *)

\* number of fingerprint computations in a behaviour
MaxCalls == 2

\* the cf object the worker sends in the payload: empty, or with an asn
CfAsn == [p \in {"asn"} |-> <<"7">>]
FpCfs == {NoCf, CfAsn}
FpRequests == {Client1, Client2, Client3}
FpParameterLists ==
    {<<F("", "clientIP")>>,
     <<F("headers", "user-agent")>>,
     <<F("cf", "asn"), F("", "method")>>,
     AbsentParameters}

\* the rule of a fingerprint computation: rule f with the given parameters
FpRule(parameters) == [RuleF EXCEPT !.parameters = parameters]

\* One computation, as RateLimiter.fetch makes it: on the request the object
\* received, with the cf data of the payload, when Date.now() is nowMs.
fpCall(request, parameters, cfData, nowMs) ==
    LET doReq == rateLimiterRequest(request)
    IN  [request |-> request, parameters |-> parameters, cf |-> cfData, at |-> nowMs,
         hash |-> generateFingerprint(doReq, parameters, cfData, nowMs),
         key |-> getClientIdentifier(doReq, FpRule(parameters), cfData, nowMs)]

FpCall(request, parameters, cfData) ==
    /\ Len(fpOut) < MaxCalls
    /\ fpOut' = Append(fpOut, fpCall(request, parameters, cfData, clock))
    /\ UNCHANGED <<clock, counterVars, matchVars, pipeVars>>

NextFP ==
    \/ Tick
    \/ \E request \in FpRequests, parameters \in FpParameterLists, cfData \in FpCfs :
           FpCall(request, parameters, cfData)

SpecFP == Init /\ [][NextFP]_vars

\* C6: two calls of generateFingerprint with the same request, the same
\* parameter list and the same cf data return the same hash, whatever the
\* time of each call.
C6_PureFingerprint ==
    \A i, j \in 1..Len(fpOut) :
        (/\ fpOut[i].request = fpOut[j].request
         /\ fpOut[i].parameters = fpOut[j].parameters
         /\ fpOut[i].cf = fpOut[j].cf)
        => fpOut[i].hash = fpOut[j].hash

\* the attribute of a call that a parameter names, read from the request as
\* the object received it and from the cf data
listedValue(c, param) ==
    fingerprintValue(rateLimiterRequest(c.request), param, c.cf,
                     getClientIP(rateLimiterRequest(c.request)))

\* two calls under one parameter list agree on every listed attribute
AgreeOnListed(c, d) ==
    /\ c.parameters = d.parameters
    /\ \A n \in 1..Len(parametersOrDefault(c.parameters)) :
           listedValue(c, parametersOrDefault(c.parameters)[n])
               = listedValue(d, parametersOrDefault(d.parameters)[n])

\* C7: two requests under one rule that differ only in attributes the rule's
\* fingerprint.parameters do not list get the same CounterKey (here even when
\* both are computed at the same time).
C7_UnlistedIgnored ==
    \A i, j \in 1..Len(fpOut) :
        (AgreeOnListed(fpOut[i], fpOut[j]) /\ fpOut[i].at = fpOut[j].at)
        => fpOut[i].key = fpOut[j].key

---------------------------------------------------------------------------
(* The rule matcher, one rule of config.rules at a time *)

\* number of rules of a config
MaxRules == 3

HomeReq == MkRequest(S_GET, S_home, Hdr(S_ip2, S_ua2), NoCf, Null, FALSE)
PostApi == MkRequest(S_POST, S_api, Hdr(S_ip1, S_ua1), NoCf, S_json, FALSE)
MatchRequests == {Client1, HomeReq, PostApi}

\* matches /api with log, and carries an else action
RuleLog == MkRule(<<"g">>, 1, 1, <<>>, ApiMatch(Action("log")), <<>>, Action("block"))
\* blocks POST, or ua2 on a path ending in z; else-if: simulate on /api, then
\* allow for ua1 or GET; else a custom response
RuleElseIf ==
    MkRule(<<"e">>, 1, 1, <<>>,
           Branch(<<Leaf(F("", "method"), "eq", S_POST),
                    Operator("or"),
                    Group("and", <<Leaf(F("headers", "user-agent"), "eq", S_ua2),
                                   Leaf(F("url", "pathname"), "ends_with", <<"z">>)>>)>>,
                  "and", Action("block")),
           <<Branch(<<Leaf(F("url", "pathname"), "starts_with", S_api)>>, "",
                    Action("simulate")),
             Branch(<<Leaf(F("headers", "user-agent"), "eq", S_ua1),
                      Leaf(F("", "method"), "eq", S_GET)>>, "or", Action("allow"))>>,
           CustomResponse(503, S_html, "html"))
\* has elseIfActions and no elseAction: not a valid rule
RuleInvalid ==
    MkRule(<<"i">>, 1, 1, <<>>, ApiMatch(Action("block")),
           <<Branch(<<Leaf(F("", "method"), "eq", S_GET)>>, "and", Action("block"))>>,
           NoAction)
\* a custom response on /home, else rateLimit
RuleHome ==
    MkRule(<<"h">>, 1, 1, <<>>,
           Branch(<<Leaf(F("url", "pathname"), "eq", S_home)>>, "and",
                  CustomResponse(418, S_json, "json")),
           <<>>, Action("rateLimit"))
\* matches /api with simulate, without an else action
RuleSim == MkRule(<<"s">>, 1, 1, <<>>, ApiMatch(Action("simulate")), <<>>, NoAction)
\* blocks POST or /api: two conditions joined by the logic "or" of initialMatch
RuleOr ==
    MkRule(<<"o">>, 1, 1, <<>>,
           Branch(<<Leaf(F("", "method"), "eq", S_POST),
                    Leaf(F("url", "pathname"), "starts_with", S_api)>>,
                  "or", Action("block")),
           <<>>, NoAction)
MatchRules == {RuleA2, RuleLog, RuleElseIf, RuleInvalid, RuleHome, RuleSim, RuleOr}

\* the configs of at most MaxRules rules
MatchConfigs == UNION {[1..n -> MatchRules] : n \in 0..MaxRules}

InitMatch ==
    /\ clock = StartTime
    /\ storage = [k \in {} |-> <<>>]
    /\ inflight = <<>>
    /\ log = <<>>
    /\ fpOut = <<>>
    /\ mIn \in {<<[request |-> request, rules |-> rules]>> :
                  request \in MatchRequests, rules \in MatchConfigs}
    /\ mPos = 1
    /\ mSt = WalkStart
    /\ mRet = <<>>
    /\ mSeen = {}
    /\ evalOut = <<>>
    /\ cachedConfig = <<>>
    /\ lastConfigFetch = 0
    /\ responses = <<>>
    /\ cfgStore = [rules |-> <<>>, config |-> <<>>]
    /\ cfgOut = <<>>

\* one iteration of the loop over config.rules; a terminal match returns
MatchRule ==
    /\ mRet = <<>>
    /\ mPos <= Len(mIn[1].rules)
    /\ LET rule == mIn[1].rules[mPos]
           st == ruleStep(mIn[1].request, rule, mSt)
       IN  /\ mSt' = st
           /\ mSeen' = IF isValidRuleStructure(rule) THEN mSeen \cup {mPos} ELSE mSeen
           /\ IF st.res # <<>>
              THEN mRet' = <<st.res>> /\ mPos' = mPos
              ELSE mRet' = mRet /\ mPos' = mPos + 1
    /\ UNCHANGED <<mIn, evalOut, clock, counterVars, fpOut, pipeVars>>

\* the loop is over without a terminal match: the fallback is returned
MatchEnd ==
    /\ mRet = <<>>
    /\ mPos > Len(mIn[1].rules)
    /\ mRet' = <<afterWalk(mSt)>>
    /\ UNCHANGED <<mIn, mPos, mSt, mSeen, evalOut, clock, counterVars, fpOut, pipeVars>>

NextMatch == MatchRule \/ MatchEnd

SpecMatch == InitMatch /\ [][NextMatch]_vars

\* the step-wise walk returns what findMatchingRule computes
WalkAgrees ==
    mRet # <<>> => mRet[1] = findMatchingRule(mIn[1].request, mIn[1].rules)

TerminalActions == {"block", "rateLimit", "customResponse", "allow"}

\* the terminal action of the branch of rule that request matches: of the
\* initial match when it matches, and else of the first matching elseIf branch
\* with a terminal action; <<>> when there is none
TerminalBranch(request, rule) ==
    IF ~isValidRuleStructure(rule) THEN <<>>
    ELSE IF evaluateConditions(request, rule.initialMatch.conditions, "and")
    THEN IF rule.initialMatch.action.type \in TerminalActions
         THEN <<rule.initialMatch.action>> ELSE <<>>
    ELSE LET hits == {j \in 1..Len(rule.elseIfActions) :
                        /\ evaluateConditions(request, rule.elseIfActions[j].conditions,
                                              LogicOrAnd(rule.elseIfActions[j].logic))
                        /\ rule.elseIfActions[j].action.type \in TerminalActions}
         IN  IF hits = {} THEN <<>>
             ELSE <<rule.elseIfActions[CHOOSE j \in hits : \A l \in hits : j <= l].action>>

\* the rules of the input with a terminal matched branch
TerminalRules ==
    {i \in 1..Len(mIn[1].rules) : TerminalBranch(mIn[1].request, mIn[1].rules[i]) # <<>>}
FirstTerminal == CHOOSE i \in TerminalRules : \A j \in TerminalRules : i <= j

\* C10: findMatchingRule returns the first rule with a terminal matched branch,
\* with that branch's action, as soon as the walk reaches it: no later rule is
\* evaluated, and the log/simulate matches and else fallbacks recorded before
\* do not change the result.
C10_FirstTerminalWins ==
    /\ mRet = <<>> => \A i \in TerminalRules : i >= mPos
    /\ (mRet # <<>> /\ TerminalRules # {}) =>
           /\ mRet[1] = <<Matched(mIn[1].rules[FirstTerminal],
                                  TerminalBranch(mIn[1].request,
                                                 mIn[1].rules[FirstTerminal])[1])>>
           /\ mPos = FirstTerminal
           /\ \A i \in mSeen : i <= FirstTerminal

\* returned at the second rule or later, with a log/simulate match and an else
\* fallback recorded before it and a rule after it left unevaluated
C10_Witness ==
    /\ mRet # <<>> /\ TerminalRules # {}
    /\ FirstTerminal > 1
    /\ FirstTerminal < Len(mIn[1].rules)
    /\ mSt.log # <<>> /\ mSt.else # <<>>
    /\ mSt.log[1].rule # mIn[1].rules[FirstTerminal]

---------------------------------------------------------------------------
(* The request pipeline of the worker: index.js, rate-limit-handler.js *)

\* number of one-second clock steps of a pipeline behaviour
MaxSeconds == 3
\* number of requests the worker serves in a pipeline behaviour
MaxFetches == 4

\* env.RATE_LIMIT_INFO_PATH
RATE_LIMIT_INFO_PATH == S_info
S_config == <<"/", "c", "o", "n", "f", "i", "g">>

\* A response as the client sees it: the status, the Retry-After header in
\* milliseconds (<<>> when the header is absent or empty), whether the origin
\* produced it, the rate-limit headers it carries and the value of
\* X-Rate-Limit-Simulated (<<>> when absent).
Response(status, retryAfterMs, origin) ==
    [status |-> status, retryAfterMs |-> retryAfterMs, origin |-> origin,
     headers |-> {}, simulated |-> <<>>, body |-> Empty, contentType |-> ""]

\* new Response(body, { status, headers: { "Content-Type": contentType } })
withBody(response, body, contentType) ==
    [response EXCEPT !.body = body, !.contentType = contentType]

\* the bodies the handlers write: "Forbidden", the JSON object with the error
\* "Rate limit exceeded", and the HTML of the rate-limit page
S_Forbidden == <<"F", "o", "r", "b", "i", "d", "d", "e", "n">>
S_exceeded == <<"R", "a", "t", "e", " ", "l", "i", "m", "i", "t", " ",
                "e", "x", "c", "e", "e", "d", "e", "d">>
HtmlContent == <<"<html>">>

\* the Content-Type of a custom response, by the bodyType of the action
contentTypeOf(bodyType) ==
    IF bodyType = "json" THEN "application/json"
    ELSE IF bodyType = "html" THEN "text/html"
    ELSE "text/plain"

\* fetch(request): the origin serves every request
originResponse(request) == Response(200, <<>>, TRUE)

\* the headers createResponse sets on every verdict, besides Content-Type and
\* the Retry-After of a denial
LimiterHeaders ==
    {"X-Rate-Limit-Limit", "X-Rate-Limit-Remaining", "X-Rate-Limit-Reset",
     "X-Rate-Limit-Reset-Precise", "X-Rate-Limit-Period", "X-Client-Identifier"}

\* The rateLimitInfo of the body createResponse builds after checkRateLimit
\* returned res, the headers of the reply and the store afterwards; retryAfter
\* is in the body of a denial only.
createResponse(res, nowMs) ==
    IF res.isAllowed
    THEN [allowed |-> "true", retryAfterMs |-> <<>>, store |-> res.store,
          headers |-> LimiterHeaders]
    ELSE [allowed |-> "false", retryAfterMs |-> <<Max(0, res.resetTime - nowMs)>>,
          store |-> res.store, headers |-> LimiterHeaders]

\* errorResponse(message, status): a body { error } without the field allowed,
\* which reads as "undefined", and no rate-limit header
errorResponse(store) ==
    [allowed |-> "undefined", retryAfterMs |-> <<>>, store |-> store, headers |-> {}]

\* RateLimiter.fetch once the request r is received: an invalid rule gives an
\* error body, /_ratelimit the counter's info (also without the field allowed),
\* no initial match an allowed body
rateLimiterReply(store, rule, nowMs, r) ==
    IF ~parseRuleOk(rule) THEN errorResponse(store)
    ELSE IF r.info
    THEN errorResponse(checkRateLimit(store, r.key, rule, nowMs).store)
    ELSE IF r.matches
    THEN createResponse(checkRateLimit(store, r.key, rule, nowMs), nowMs)
    ELSE [allowed |-> "true", retryAfterMs |-> <<>>, store |-> store,
          headers |-> LimiterHeaders]

\* RateLimiter.fetch on the request handleRateLimit sends for a matched rule:
\* the rateLimitInfo of the response body and the store afterwards
rateLimiterFetch(store, request, rule, nowMs) ==
    rateLimiterReply(store, rule, nowMs, received(request, rule, nowMs))

\* what may happen to the call of the counter: nothing, an exception inside
\* RateLimiter.fetch (reading the payload, the fingerprint, the storage), which
\* its catch block answers with errorResponse("Unexpected error", 500), or a
\* rejected rateLimiter.fetch, which throws in handleRateLimit
Faults == {"none", "error", "threw"}

\* handleRateLimit(request, env, matchingRule) under a fault: the rateLimitInfo,
\* the headers of rateLimitResponse and the store afterwards; allowed is
\* "threw" when the call threw and there is no rateLimitInfo
handleRateLimit(store, request, rule, nowMs, fault) ==
    CASE fault = "error" /\ parseRuleOk(rule) -> errorResponse(store)
      [] fault = "threw" ->
             [allowed |-> "threw", retryAfterMs |-> <<>>, store |-> store, headers |-> {}]
      [] OTHER -> rateLimiterFetch(store, request, rule, nowMs)

\* a rate-limit page that is the JSON body for every client
serveRateLimitJson(info) ==
    withBody(Response(429, info.retryAfterMs, FALSE), S_exceeded, "application/json")

\* serveRateLimitPage(env, request, rateLimitInfo)
serveRateLimitPage(info) ==
    withBody(Response(429, info.retryAfterMs, FALSE), HtmlContent, "text/html")

\* a dispatcher that blocks whatever the action
actionResponseBlocking(request, matched, info) ==
    <<withBody(Response(403, <<>>, FALSE), S_Forbidden, "text/plain")>>

\* actionHandlers[matchingRule.actionType](env, request, rateLimitInfo,
\* matchingRule): <<response>>, or <<>> when the call throws (log and simulate
\* fetch their first argument, which is env; allow has no handler; a status
\* that is no number and the toString of an absent retryAfter throw)
actionResponse(request, matched, info) ==
    LET action == matched.action
        accept == HeaderGet(request, "accept")
    IN  CASE matched.actionType = "block" ->
                 <<withBody(Response(403, <<>>, FALSE), S_Forbidden, "text/plain")>>
          [] matched.actionType = "customResponse" ->
                 IF action.statusCode = 0 THEN <<>>
                 ELSE <<withBody(Response(action.statusCode, <<>>, FALSE), action.body,
                                 contentTypeOf(action.bodyType))>>
          [] matched.actionType = "rateLimit" ->
                 IF action.statusCode # 0 /\ action.body # Empty
                 THEN <<withBody(Response(action.statusCode, <<>>, FALSE), action.body,
                                 contentTypeOf(action.bodyType))>>
                 ELSE IF accept # Null /\ Includes(accept, S_html)
                 THEN <<serveRateLimitPage(info)>>
                 ELSE IF info.retryAfterMs = <<>> THEN <<>>
                 ELSE <<withBody(Response(429, info.retryAfterMs, FALSE), S_exceeded,
                                 "application/json")>>
          [] OTHER -> <<>>

\* the headers applyRateLimitHeaders copies
CopiedHeaders ==
    {"X-Rate-Limit-Remaining", "X-Rate-Limit-Limit", "X-Rate-Limit-Period",
     "X-Rate-Limit-Reset"}

\* applyRateLimitHeaders(response, rateLimitResponse), d being the reply of the
\* counter
applyRateLimitHeaders(response, d) ==
    [response EXCEPT !.headers = @ \cup (d.headers \cap CopiedHeaders)]

\* what the pipeline records of the matched rule
matchSummary(matched) ==
    <<[name |-> matched.rule.name, limit |-> matched.rule.limit,
       period |-> matched.rule.period, actionType |-> matched.actionType,
       action |-> matched.action]>>

\* the outcome of the fetch handler: the response, the store afterwards, the
\* summary of the match and what the counter answered for allowed ("none" when
\* it was not called)
served(response, store, summary, verdict) ==
    [response |-> response, store |-> store, matched |-> summary, verdict |-> verdict]

\* the end of the fetch handler for a denied request: the handler's response
\* with the rate-limit headers, or the origin's when the handler threw (the
\* catch block)
respondDenied(request, d, summary, denied) ==
    IF denied = <<>> THEN served(originResponse(request), d.store, summary, d.allowed)
    ELSE served(applyRateLimitHeaders(denied[1], d), d.store, summary, d.allowed)

\* the response of the fetch handler to an allowed request, before the
\* rate-limit headers are applied
allowedResponse(request, matched) ==
    IF matched.actionType = "simulate"
    THEN [originResponse(request) EXCEPT !.simulated = <<"false">>]
    ELSE originResponse(request)

\* the fetch handler after handleRateLimit returned the rateLimitInfo d
afterRateLimit(request, matched, d) ==
    IF d.allowed = "threw"
    THEN served(originResponse(request), d.store, matchSummary(matched), d.allowed)
    ELSE IF request.pathname = RATE_LIMIT_INFO_PATH
    THEN served(Response(200, <<>>, FALSE), d.store, matchSummary(matched), d.allowed)
    ELSE IF d.allowed = "true"
    THEN served(applyRateLimitHeaders(allowedResponse(request, matched), d), d.store,
                matchSummary(matched), d.allowed)
    ELSE respondDenied(request, d, matchSummary(matched),
                       actionResponse(request, matched, d))

\* the fetch handler after findMatchingRule returned match
afterMatching(request, store, nowMs, fault, match) ==
    IF match = <<>> THEN served(originResponse(request), store, <<>>, "none")
    ELSE afterRateLimit(request, match[1],
                        handleRateLimit(store, request, match[1].rule, nowMs, fault))

\* The fetch handler of the worker for a request that is neither for /config
\* nor for the rate-limit page: config is what getConfig returns (<<>> for
\* null or no rules), fault what happens to the call of the counter.
workerFetch(request, config, store, nowMs, fault) ==
    IF Len(config) = 0 THEN served(originResponse(request), store, <<>>, "none")
    ELSE afterMatching(request, store, nowMs, fault, findMatchingRule(request, config))

\* limit 3 in 10 seconds on /api: one counter for all clients, and one per
\* client IP
RuleP == MkRule(<<"p">>, 3, 10, <<>>, ApiMatch(Action("rateLimit")), <<>>, NoAction)
RulePF == MkRule(<<"q">>, 3, 10, <<F("", "clientIP")>>, ApiMatch(Action("rateLimit")),
                 <<>>, NoAction)
\* the rule lists the config storage may hold when the worker first asks
PipeConfigs == {<<>>, <<RuleP>>, <<RulePF>>, <<RuleElseIf, RulePF>>}
PipeRequests == {Client1, Client3, HomeReq}

\* a second passes
PipeTick ==
    /\ clock < StartTime + MaxSeconds * MsPerSecond
    /\ clock' = clock + MsPerSecond
    /\ UNCHANGED <<counterVars, fpOut, matchVars, pipeVars>>

\* the answer of the config storage to GET /config: not ok, or ok with the
\* stored rules (<<>> for a config without rules)
ConfigReply(ok, rules) == [ok |-> ok, rules |-> rules]

\* the module state of the config cache
ConfigCache(config, fetchedAt) == [config |-> config, fetchedAt |-> fetchedAt]

\* fetchAndUpdateConfig(env) of config-manager.js: the cache afterwards
fetchAndUpdateConfig(cache, reply, nowMs) ==
    IF ~reply.ok \/ Len(reply.rules) = 0 THEN cache
    ELSE ConfigCache(reply.rules, nowMs)

\* getConfig(env) of config-manager.js: the cache afterwards, the config
\* returned (<<>> for null), whether the config storage was asked and, if so,
\* its answer
getConfig(cache, reply, nowMs) ==
    IF cache.config = <<>>
    THEN [cache |-> fetchAndUpdateConfig(cache, reply, nowMs),
          config |-> fetchAndUpdateConfig(cache, reply, nowMs).config,
          read |-> TRUE, reply |-> <<reply>>]
    ELSE [cache |-> cache, config |-> cache.config, read |-> FALSE, reply |-> <<>>]

\* The worker serves one request, the max-th at most; got is what getConfig
\* did and returned.
Fetch(request, got, fault, max) ==
    /\ Len(responses) < max
    /\ request.pathname # S_config
    /\ HeaderGet(request, "x-serve-rate-limit-page") = Null
    /\ \E config \in {got.config} :
       \E out \in {workerFetch(request, config, storage, clock, fault)} :
       \E records \in {matchRecords(request, config)} :
           /\ cachedConfig' = got.cache.config
           /\ lastConfigFetch' = got.cache.fetchedAt
           /\ storage' = out.store
           /\ responses' = Append(responses,
                  [request |-> request, at |-> clock, matched |-> out.matched,
                   status |-> out.response.status,
                   retryAfterMs |-> out.response.retryAfterMs,
                   origin |-> out.response.origin,
                   headers |-> out.response.headers,
                   simulated |-> out.response.simulated,
                   body |-> out.response.body,
                   contentType |-> out.response.contentType,
                   verdict |-> out.verdict,
                   records |-> records,
                   config |-> config,
                   cached |-> cachedConfig,
                   fetchedAt |-> lastConfigFetch,
                   read |-> got.read,
                   reply |-> got.reply])
    /\ UNCHANGED <<clock, inflight, log, fpOut, matchVars, cfgStore, cfgOut>>

\* what getConfig does now, the config storage holding the rules stored
Got(stored) ==
    getConfig(ConfigCache(cachedConfig, lastConfigFetch), ConfigReply(TRUE, stored), clock)

\* the worker serves a request and the counter answers
WorkerFetch(request, stored) == Fetch(request, Got(stored), "none", MaxFetches)

NextPipe ==
    \/ PipeTick
    \/ \E request \in PipeRequests, stored \in PipeConfigs : WorkerFetch(request, stored)

SpecPipe == Init /\ [][NextPipe]_vars

\* every response so far answers the same client, under the same matched rule
\* with action rateLimit, and all of them lie within one period of the first
OneClientOnePeriod ==
    /\ Len(responses) > 0
    /\ responses[1].matched # <<>>
    /\ responses[1].matched[1].actionType = "rateLimit"
    /\ \A i \in 1..Len(responses) :
           /\ responses[i].request = responses[1].request
           /\ responses[i].matched = responses[1].matched
           /\ responses[i].at - responses[1].at
                  < responses[1].matched[1].period * MsPerSecond

\* C9: of the requests of one client within one period of a rateLimit rule the
\* first limit get 200 and the next one is denied with 429 and a Retry-After
\* that covers the rest of the period (for {limit 3, period 10} and requests at
\* t = 0, 1, 2, 3 s: 200, 200, 200, 429 with Retry-After >= 7).
C9_LimitPlusOneDenied ==
    OneClientOnePeriod =>
        LET rule == responses[1].matched[1] IN
        \A i \in 1..Len(responses) :
            /\ i <= rule.limit => responses[i].status = 200
            /\ i = rule.limit + 1 =>
                   /\ responses[i].status = 429
                   /\ responses[i].retryAfterMs # <<>>
                   /\ responses[i].retryAfterMs[1]
                          >= rule.period * MsPerSecond
                             - (responses[i].at - responses[1].at)


---------------------------------------------------------------------------
(* The dispatch of the verdict: index.js, condition-evaluator.js *)

\* number of requests the worker serves in a dispatch behaviour
MaxServed == 2

\* a browser: the request of Client1 with Accept: text/html
HtmlReq == MkRequest(S_GET, S_apix, ("accept" :> S_html) @@ Hdr(S_ip1, S_ua1),
                     NoCf, Null, FALSE)
DispatchRequests == {Client1, HtmlReq, HomeReq}

\* an observational rule and an enforcing rule on /api, with a rateLimit and
\* as written without one (limit and period 0 stand for the absent field)
RuleObs == MkRule(<<"o", "b", "s">>, 2, 10, <<>>, ApiMatch(Action("log")), <<>>, NoAction)
RuleEnf == MkRule(<<"e", "n", "f">>, 1, 10, <<>>, ApiMatch(Action("block")), <<>>,
                  NoAction)
RuleObsBare == MkRule(<<"o", "b", "s">>, 0, 0, <<>>, ApiMatch(Action("log")), <<>>,
                      NoAction)
RuleEnfBare == MkRule(<<"e", "n", "f">>, 0, 0, <<>>, ApiMatch(Action("block")), <<>>,
                      NoAction)
\* one request in 10 seconds on /api, answered by the rateLimit action and by
\* a custom response
RuleOne == MkRule(<<"r">>, 1, 10, <<>>, ApiMatch(Action("rateLimit")), <<>>, NoAction)
S_tea == <<"t", "e", "a">>
RuleTeapot == MkRule(<<"t">>, 1, 10, <<>>, ApiMatch(CustomResponse(418, S_tea, "text")),
                     <<>>, NoAction)
\* RuleTeapot with another custom response, and RuleOne with a status and a
\* body on its rateLimit action
RuleCustom(statusCode, body, bodyType) ==
    [RuleTeapot EXCEPT !.initialMatch = ApiMatch(CustomResponse(statusCode, body, bodyType))]
RuleOneCustom ==
    [RuleOne EXCEPT !.initialMatch =
         ApiMatch([CustomResponse(503, S_tea, "text") EXCEPT !.type = "rateLimit"])]
\* the rule lists the config storage may hold when the worker first asks; the
\* last one is RuleOne without its rateLimit
DispatchConfigs ==
    {<<>>, <<RuleObs, RuleEnf>>, <<RuleObsBare, RuleEnfBare>>, <<RuleObs>>, <<RuleSim>>,
     <<RuleOne>>, <<RuleOneCustom>>, <<RuleTeapot>>,
     <<RuleCustom(451, S_json, "json")>>, <<RuleCustom(503, S_html, "html")>>,
     <<[RuleOne EXCEPT !.limit = 0, !.period = 0]>>}

\* the worker serves a request, whatever happens to the call of the counter
Serve(request, stored, fault) == Fetch(request, Got(stored), fault, MaxServed)

\* the call of the counter fails for the requests of one client only
NextDispatch ==
    \/ PipeTick
    \/ \E request \in DispatchRequests, stored \in DispatchConfigs :
           Serve(request, stored, "none")
    \/ \E stored \in DispatchConfigs, fault \in Faults \ {"none"} :
           Serve(Client1, stored, fault)

SpecDispatch == Init /\ [][NextDispatch]_vars

\* the i-th response answers a request that matches the initial conditions of
\* an observational first rule and of a blocking second rule
BothMatch(i) ==
    LET c == responses[i].config IN
    /\ Len(c) = 2
    /\ c[1].initialMatch.action.type = "log"
    /\ c[2].initialMatch.action.type = "block"
    /\ initialMatches(responses[i].request, c[1])
    /\ initialMatches(responses[i].request, c[2])

\* the i-th response is the 403 of the block handler
Blocked(i) == responses[i].status = 403 /\ ~responses[i].origin

\* the i-th response is the origin's
Forwarded(i) ==
    /\ responses[i].origin
    /\ responses[i].status = originResponse(responses[i].request).status

\* C13: when a log rule and a later block rule both match a request, the
\* matcher returns the block rule and a log record for the log rule is
\* emitted; the response is the 403 of the block handler unless the counter
\* answers allowed for the block rule or the call of the counter throws, and
\* then the request is forwarded.
C13_LogThenBlock ==
    \A i \in 1..Len(responses) :
        BothMatch(i) =>
            /\ responses[i].matched # <<>>
            /\ responses[i].matched[1].name = responses[i].config[2].name
            /\ responses[i].matched[1].actionType = "block"
            /\ responses[i].records = <<responses[i].config[1].name>>
            /\ Blocked(i) <=> responses[i].verdict \in {"false", "undefined"}
            /\ Forwarded(i) <=> responses[i].verdict \in {"true", "threw"}

\* both rules matched, the counter of the block rule denied, and the response
\* is the 403 with the log record written
C13_Witness ==
    \E i \in 1..Len(responses) :
        /\ BothMatch(i)
        /\ responses[i].verdict = "false"
        /\ Blocked(i)
        /\ responses[i].records = <<RuleObs.name>>

\* C13 as stated: whenever a log rule and a later block rule both match, the
\* outcome is a 403 block and a log record for the log rule is emitted.
C13_AlwaysBlocked ==
    \A i \in 1..Len(responses) :
        BothMatch(i) =>
            /\ Blocked(i)
            /\ responses[i].records = <<responses[i].config[1].name>>

\* C14: every 429 follows a counter transaction that completed with
\* allowed = false; none is produced when the counter answered with an error,
\* an invalid-rule reply or no verdict.
C14_429AfterDenial ==
    \A i \in 1..Len(responses) :
        responses[i].status = 429 => responses[i].verdict = "false"

\* C15: when the config fetch, the matching or the call of the counter fails
\* before dispatch (an exception, or an error body instead of a verdict), the
\* request is forwarded to the origin and no denial is synthesized.
C15_FailOpen ==
    \A i \in 1..Len(responses) :
        responses[i].verdict \in {"none", "undefined", "threw"} => Forwarded(i)

\* C18: every response for a matched request with a verdict carries
\* X-Rate-Limit-Limit, -Remaining, -Period, -Reset, -Reset-Precise and
\* X-Client-Identifier, and Retry-After when the verdict is a denial.
C18_VerdictHeaders ==
    \A i \in 1..Len(responses) :
        (responses[i].matched # <<>> /\ responses[i].verdict \in {"true", "false"}) =>
            /\ LimiterHeaders \subseteq responses[i].headers
            /\ responses[i].verdict = "false" => responses[i].retryAfterMs # <<>>

\* C19: under simulate the request is forwarded, with X-Rate-Limit-Simulated
\* false when the verdict is allowed and true when it is denied.
C19_SimulateMarked ==
    \A i \in 1..Len(responses) :
        (/\ responses[i].matched # <<>>
         /\ responses[i].matched[1].actionType = "simulate"
         /\ responses[i].verdict \in {"true", "false"}) =>
            /\ Forwarded(i)
            /\ responses[i].simulated
                   = <<IF responses[i].verdict = "true" THEN "false" ELSE "true">>

\* the i-th response answers a request matched with log or simulate that the
\* counter denied
ObservedDenied(i) ==
    /\ responses[i].matched # <<>>
    /\ responses[i].matched[1].actionType \in {"log", "simulate"}
    /\ responses[i].verdict = "false"

MatchedWith(i, type) ==
    responses[i].matched # <<>> /\ responses[i].matched[1].actionType = type

\* the i-th response is the 403 the block handler writes
Forbidden403(i) ==
    /\ responses[i].status = 403
    /\ ~responses[i].origin
    /\ responses[i].body = S_Forbidden

\* C21: for a matched rule with action block the client receives the
\* synthesized 403 with body "Forbidden" exactly when the verdict of the
\* counter is a denial; when the verdict is allowed the request is forwarded.
C21_BlockOnDenial ==
    \A i \in 1..Len(responses) :
        MatchedWith(i, "block") =>
            /\ Forbidden403(i) <=> responses[i].verdict = "false"
            /\ responses[i].verdict = "true" => Forwarded(i)

\* the i-th response is the custom response of the matched action
CustomServed(i) ==
    LET action == responses[i].matched[1].action IN
    /\ ~responses[i].origin
    /\ responses[i].status = action.statusCode
    /\ responses[i].body = action.body
    /\ responses[i].contentType =
           (CASE action.bodyType = "json" -> "application/json"
              [] action.bodyType = "html" -> "text/html"
              [] OTHER -> "text/plain")

\* C22: a denied request on a customResponse rule gets the rule's statusCode
\* and body, with Content-Type application/json for bodyType json, text/html
\* for html and text/plain otherwise, and the rate-limit headers.
C22_CustomResponse ==
    \A i \in 1..Len(responses) :
        (MatchedWith(i, "customResponse") /\ responses[i].verdict = "false") =>
            /\ CustomServed(i)
            /\ LimiterHeaders \subseteq responses[i].headers
            /\ responses[i].retryAfterMs # <<>>

\* the i-th response is the default answer of the rateLimit action: the HTML
\* page for a request that accepts text/html, otherwise the JSON body, with
\* status 429 and Retry-After
Default429(i) ==
    LET accept == HeaderGet(responses[i].request, "accept") IN
    /\ responses[i].status = 429
    /\ ~responses[i].origin
    /\ responses[i].retryAfterMs # <<>>
    /\ IF accept # Null /\ Includes(accept, S_html)
       THEN responses[i].body = HtmlContent /\ responses[i].contentType = "text/html"
       ELSE responses[i].body = S_exceeded
            /\ responses[i].contentType = "application/json"

\* the matched action of the i-th response carries a status and a body
HasOwnResponse(i) ==
    /\ responses[i].matched[1].action.statusCode # 0
    /\ responses[i].matched[1].action.body # Empty

\* C23: a denied request whose action is rateLimit gets the HTML rate-limit
\* page when its Accept header contains text/html and otherwise the JSON body
\* with status 429 and Retry-After, unless the action carries a statusCode and
\* a body, which are then served as a custom response.
C23_RateLimitAction ==
    \A i \in 1..Len(responses) :
        (MatchedWith(i, "rateLimit") /\ responses[i].verdict = "false") =>
            IF HasOwnResponse(i) THEN CustomServed(i) ELSE Default429(i)

\* a browser and another client were both denied under the plain rateLimit
\* action
C23_Witness ==
    \E i \in 1..Len(responses) :
        /\ MatchedWith(i, "rateLimit") /\ responses[i].verdict = "false"
        /\ ~HasOwnResponse(i)
        /\ Default429(i)
        /\ responses[i].request = HtmlReq
        /\ i > 1 /\ responses[i - 1].request = Client1

\* C23 as stated: every denied request whose action is rateLimit gets the
\* HTML page or the JSON body with status 429 and Retry-After.
C23_Always429 ==
    \A i \in 1..Len(responses) :
        (MatchedWith(i, "rateLimit") /\ responses[i].verdict = "false") => Default429(i)

---------------------------------------------------------------------------
(* The condition evaluator on its own *)

\* number of evaluations in a behaviour
MaxEvals == 1

RECURSIVE outcomeLoop(_, _, _, _, _)
\* The for loop of evaluateConditions when a leaf may throw: the rejection
\* of evaluateCondition, or of the nested call for a group, is the rejection
\* of the loop.
outcomeLoop(request, conditions, i, logic, result) ==
    IF i > Len(conditions) THEN IF result THEN "true" ELSE "false"
    ELSE LET c == conditions[i] IN
         IF c.type = "operator"
         THEN outcomeLoop(request, conditions, i + 1, c.logic, result)
         ELSE LET r == IF c.type = "group"
                       THEN outcomeLoop(request, c.conditions, 1, "and", TRUE)
                       ELSE conditionOutcome(request, c)
              IN  IF r = "throw" THEN "throw"
                  ELSE IF logic = "and"
                       THEN IF result /\ r = "true"
                            THEN outcomeLoop(request, conditions, i + 1, logic, TRUE)
                            ELSE "false"
                       ELSE IF result \/ r = "true"
                            THEN "true"
                            ELSE outcomeLoop(request, conditions, i + 1, logic, FALSE)

\* what a call of evaluateConditions(request, conditions, logic) comes to
conditionsOutcome(request, conditions, logic) ==
    outcomeLoop(request, conditions, 1, logic, logic = "and")

\* an IPv4 address as its four octets, and the text of it
IpText(octets) ==
    Join(<<DigitsOf(octets[1]), DigitsOf(octets[2]), DigitsOf(octets[3]),
           DigitsOf(octets[4])>>, <<".">>)
\* a.b.c.d/n
CidrText(octets, bits) == IpText(octets) \o <<"/">> \o DigitsOf(bits)

EvalIps == {<<1, 2, 3, 99>>, <<1, 2, 4, 1>>, <<10, 5, 6, 7>>, <<200, 1, 2, 3>>}
EvalRanges == {<<1, 2, 3, 0>>, <<10, 0, 0, 0>>, <<200, 1, 0, 0>>}
EvalBits == {0, 8, 15, 24, 32}

IpRequest(octets) == MkRequest(S_GET, S_apix, Hdr(IpText(octets), S_ua1), NoCf, Null, FALSE)
CidrLeaf(octets, bits) == Leaf(F("", "clientIP"), "eq", CidrText(octets, bits))

\* a request that names no client address, and requests with a body that is
\* a JSON object and one that is not
S_doc == <<"{", "\"", "k", "\"", ":", "\"", "v", "\"", "}">>
S_v == <<"v">>
NoIpRequest ==
    MkRequest(S_GET, S_apix, [h \in {"user-agent"} |-> S_ua1], NoCf, Null, FALSE)
JsonRequest == MkRequest(S_POST, S_api, Hdr(S_ip1, S_ua1), NoCf, S_doc, FALSE)
EvalRequests == {Client1, PostApi, JsonRequest, NoIpRequest}

\* operands: a user agent, text that "null" and "undefined" hold, a member
\* value, a number, a CIDR range, a pattern with a group that is not closed
S_u == <<"u">>
S_openGroup == <<"(", "u", "a">>
S_range == CidrText(<<1, 2, 3, 0>>, 24)

EvalOperators == OperatorNames \cup {"like"}

\* leaves on an absent header, an absent cf path and a name fieldFunctions
\* does not hold, under every operator, and leaves on a header of every
\* request
UnresolvedLeaves ==
    {Leaf(field, operator, S_u) :
        field \in {F("headers", "x-missing"), F("cf", "asn"), F("", "nosuch")},
        operator \in EvalOperators}
ResolvedLeaves ==
    {Leaf(F("headers", "user-agent"), operator, S_ua1) :
        operator \in {"eq", "contains", "gt", "like"}}

\* malformed leaves: no field, a member of the body, a number and a range
\* as the operand of eq on clientIP, a pattern that is no regular expression
MalformedLeaves ==
    {Leaf(NoField, "eq", S_ua1), Leaf(F("body", "k"), "eq", S_v),
     Leaf(F("", "clientIP"), "eq", Number(<<"5">>)),
     Leaf(F("", "clientIP"), "eq", S_range),
     Leaf(F("headers", "user-agent"), "matches", S_openGroup)}

EvalLeaves == UnresolvedLeaves \cup ResolvedLeaves \cup MalformedLeaves

\* the leaf that is true of every request of the model
TrueLeaf == Leaf(F("", "url"), "contains", S_api)

\* One evaluation, as findMatchingRule makes it for the conditions of a
\* branch.
Evaluate(request, conditions, logic) ==
    /\ Len(evalOut) < MaxEvals
    /\ evalOut' = Append(evalOut,
                         [request |-> request, conditions |-> conditions,
                          logic |-> logic,
                          result |-> conditionsOutcome(request, conditions, logic)])
    /\ UNCHANGED <<clock, counterVars, fpOut, mIn, mPos, mSt, mRet, mSeen, pipeVars>>

\* a range leaf on one address
EvaluateCidr ==
    \E ip \in EvalIps, range \in EvalRanges, bits \in EvalBits :
        Evaluate(IpRequest(ip), <<CidrLeaf(range, bits)>>, "and")

\* one leaf on a request
EvaluateLeaf ==
    \E request \in {Client1, NoIpRequest}, leaf \in EvalLeaves :
        Evaluate(request, <<leaf>>, "and")

\* a leaf or the leaf that is true, as conditions under the logic "or"
EvaluateEither ==
    \E request \in EvalRequests, leaf \in MalformedLeaves :
        Evaluate(request, <<leaf, TrueLeaf>>, "or")

\* the leaf that is false of a GET request
FalseLeaf == Leaf(F("", "method"), "eq", S_POST)

\* the true leaf and a nested group of two leaves with a logic of its own
EvaluateGroup ==
    \E glogic \in {"and", "or"}, a \in {TrueLeaf, FalseLeaf}, b \in {TrueLeaf, FalseLeaf} :
        Evaluate(Client1, <<TrueLeaf, Group(glogic, <<a, b>>)>>, "and")

\* requests that name the client address in both headers, in the forwarded
\* chain only, and in the cf object of the connection only
BothIps ==
    MkRequest(S_GET, S_apix,
              [h \in {"true-client-ip", "cf-connecting-ip"} |->
                 IF h = "true-client-ip" THEN S_ip2 ELSE S_ip1],
              NoCf, Null, FALSE)
ForwardedIp ==
    MkRequest(S_GET, S_apix,
              [h \in {"x-forwarded-for"} |-> <<" ">> \o S_ip1 \o <<",", " ">> \o S_ip2],
              NoCf, Null, FALSE)
EdgeIp ==
    MkRequest(S_GET, S_apix, [h \in {"user-agent"} |-> S_ua1],
              [p \in {"clientIp"} |-> S_ip1], Null, FALSE)
IpSources == {Client1, BothIps, ForwardedIp, EdgeIp, NoIpRequest}
IpOperands == {S_ip1, S_ip2, S_unknown}

\* a leaf that compares the client address with an address or "unknown"
EvaluateClientIP ==
    \E request \in IpSources, value \in IpOperands :
        Evaluate(request, <<Leaf(F("", "clientIP"), "eq", value)>>, "and")

NextEval ==
    \/ EvaluateCidr
    \/ EvaluateLeaf
    \/ EvaluateEither
    \/ EvaluateGroup
    \/ EvaluateClientIP

SpecEval == Init /\ [][NextEval]_vars

\* bit i of an address, counted from the top (1) to the bottom (32)
BitOf(octets, i) == (octets[((i - 1) \div 8) + 1] \div (2 ^ (7 - ((i - 1) % 8)))) % 2
AgreeOnTop(a, b, n) == \A i \in 1..n : BitOf(a, i) = BitOf(b, i)

\* C24: for field clientIP with operator eq and an operand a.b.c.d/n with
\* 0 <= n <= 32, the leaf is true exactly when the address of the request
\* agrees with a.b.c.d on its top n bits, and it is false otherwise.
C24_CidrMatch ==
    \A i \in 1..Len(evalOut) : \A ip \in EvalIps, range \in EvalRanges, bits \in EvalBits :
        (/\ evalOut[i].request = IpRequest(ip)
         /\ evalOut[i].conditions = <<CidrLeaf(range, bits)>>)
        => evalOut[i].result = IF AgreeOnTop(ip, range, bits) THEN "true" ELSE "false"

\* 1.2.3.0/24 was evaluated on 1.2.3.99 and found true
C24_Witness ==
    \E i \in 1..Len(evalOut) :
        /\ evalOut[i].request = IpRequest(<<1, 2, 3, 99>>)
        /\ evalOut[i].conditions = <<CidrLeaf(<<1, 2, 3, 0>>, 24)>>
        /\ evalOut[i].result = "true"

\* the field of a leaf cannot be resolved on the request: a name that
\* fieldFunctions does not hold, an absent header, an absent cf path
Unresolved(request, field) ==
    \/ field.ns = "" /\ field.name \notin BareFields
    \/ field.ns = "headers" /\ field.name \notin DOMAIN request.headers
    \/ field.ns = "cf" /\ field.name \notin DOMAIN request.cf

\* C25: a leaf whose operator is not in the operator table, or whose field
\* cannot be resolved on the request, evaluates to false, whichever operator
\* the leaf uses.
C25_UnresolvedIsFalse ==
    \A i \in 1..Len(evalOut) :
        (/\ Len(evalOut[i].conditions) = 1
         /\ \/ evalOut[i].conditions[1].operator \notin OperatorNames
            \/ Unresolved(evalOut[i].request, evalOut[i].conditions[1].field))
        => evalOut[i].result = "false"

\* C26: evaluateConditions and evaluateCondition never throw: a malformed
\* leaf evaluates to false, and the evaluation goes on with the remaining
\* conditions (so a malformed leaf or the true leaf is true).
C26_NeverThrows ==
    \A i \in 1..Len(evalOut) :
        /\ evalOut[i].result # "throw"
        /\ evalOut[i].logic = "or" => evalOut[i].result = "true"

RECURSIVE ownLogicLoop(_, _, _, _)
\* the children of a group from index i on, in order, each nested group
\* under the logic it carries: the first false child decides under "and",
\* the first true child under "or"
ownLogicLoop(request, conditions, i, logic) ==
    IF i > Len(conditions) THEN IF logic = "and" THEN "true" ELSE "false"
    ELSE LET c == conditions[i]
             r == IF c.type = "group"
                  THEN ownLogicLoop(request, c.conditions, 1, LogicOrAnd(c.logic))
                  ELSE conditionOutcome(request, c)
         IN  IF r = "throw" THEN "throw"
             ELSE IF logic = "and" /\ r = "false" THEN "false"
             ELSE IF logic = "or" /\ r = "true" THEN "true"
             ELSE ownLogicLoop(request, conditions, i + 1, logic)

\* C32: evaluateConditions returns the conjunction of the children under the
\* logic "and" and their disjunction under "or", each nested group evaluated
\* under its own logic, stopping at the first child that decides.
C32_GroupOwnLogic ==
    \A i \in 1..Len(evalOut) :
        (\A n \in 1..Len(evalOut[i].conditions) :
             evalOut[i].conditions[n].type # "operator")
        => evalOut[i].result = ownLogicLoop(evalOut[i].request, evalOut[i].conditions,
                                            1, evalOut[i].logic)

\* RateLimiter.getClientIP(request, cfData) of the earlier counter
limiterClientIP(request, cfData) ==
    OrElse(OrElse(OrElse(OrElse(HeaderGet(request, "true-client-ip"),
                                HeaderGet(request, "cf-connecting-ip")),
                         ForwardedFor(request)),
                  CfGet(cfData, "clientIp")),
           S_unknown)

\* C34: the clientIP of a request is the first non-empty of True-Client-IP,
\* CF-Connecting-IP, the first token of X-Forwarded-For and the clientIp of
\* the edge metadata, and otherwise "unknown": a leaf "clientIP eq value" is
\* true exactly for that value, and the fingerprinter resolves the same value.
C34_OneClientIP ==
    \A i \in 1..Len(evalOut) :
        (/\ Len(evalOut[i].conditions) = 1
         /\ evalOut[i].conditions[1].field = F("", "clientIP")
         /\ evalOut[i].conditions[1].operator = "eq"
         /\ evalOut[i].conditions[1].value \in IpOperands)
        => /\ evalOut[i].result = "true"
                <=> evalOut[i].conditions[1].value
                        = limiterClientIP(evalOut[i].request, evalOut[i].request.cf)
           /\ getClientIP(evalOut[i].request)
                  = limiterClientIP(evalOut[i].request, evalOut[i].request.cf)

---------------------------------------------------------------------------
(* The config storage: config-storage.js, and the ConfigStorage of part_004 *)

\* number of requests the config storage serves in a behaviour
MaxConfigCalls == 3

\* NaN, the Number() of what is no number
NaN == <<"<NaN>">>

\* Number(v) for a number, a string, null and undefined
toNumber(v) ==
    IF IsNumber(v) \/ v = NaN THEN v
    ELSE IF v = Null THEN Number(<<"0">>)
    ELSE IF v = Undefined THEN NaN
    ELSE IF ToNumber(v) = <<>> THEN NaN
    ELSE Number(DigitsOf(ToNumber(v)[1]))

\* JSON.parse(JSON.stringify(v)) of a member: NaN is written null
jsonValue(v) == IF v = NaN THEN Null ELSE v

\* A rule as the config API carries it: its id, its rateLimit and its action.
RuleDoc(id, limit, period, type, statusCode) ==
    [id |-> id, rateLimit |-> [limit |-> limit, period |-> period],
     action |-> [type |-> type, statusCode |-> statusCode]]

\* A config document
ConfigDoc(version, rules) == [version |-> version, rules |-> rules]

\* the forEach of the POST of part_004 on one rule
coerceRule(rule) ==
    [rule EXCEPT !.rateLimit.limit = toNumber(@),
                 !.rateLimit.period = toNumber(@),
                 !.action.statusCode = IF rule.action.type = "customResponse"
                                       THEN toNumber(@) ELSE @]

\* JSON.parse(JSON.stringify(rule))
jsonRule(rule) ==
    [rule EXCEPT !.rateLimit.limit = jsonValue(@),
                 !.rateLimit.period = jsonValue(@),
                 !.action.statusCode = jsonValue(@)]

\* JSON.parse(JSON.stringify(config)) of a config document
jsonConfig(config) ==
    ConfigDoc(config.version, [k \in DOMAIN config.rules |-> jsonRule(config.rules[k])])

S_version == <<"1", ".", "0">>

\* the config the POST of part_004 stores for the document posted
normalize(config) ==
    ConfigDoc(S_version, [k \in DOMAIN config.rules |-> coerceRule(config.rules[k])])

\* what a request to the config storage did: the document sent (<<>> when
\* the request has none), the status and the document of the response, and
\* the storage before and after
served4(op, class, sent, status, reply, after) ==
    [op |-> op, class |-> class, sent |-> sent, status |-> status, reply |-> reply,
     before |-> cfgStore, after |-> after]

ConfigServe(entry) ==
    /\ Len(cfgOut) < MaxConfigCalls
    /\ cfgStore' = entry.after
    /\ cfgOut' = Append(cfgOut, entry)
    /\ UNCHANGED <<clock, counterVars, fpOut, matchVars, cachedConfig, lastConfigFetch,
                   responses>>

\* part_004, POST: the version is set, the numeric fields are coerced and the
\* document is stored under 'config' as JSON text
PostDocument(config) ==
    ConfigServe(served4("POST", "document", <<config>>, 200, jsonConfig(normalize(config)),
                        [cfgStore EXCEPT !.config = <<jsonConfig(normalize(config))>>]))

\* part_004, GET: the text stored under 'config', or the empty config
GetDocument ==
    ConfigServe(served4("GET", "document", <<>>, 200,
                        IF cfgStore.config = <<>> THEN ConfigDoc(S_version, <<>>)
                        ELSE cfgStore.config[1],
                        cfgStore))

\* config-storage.js, handlePost: the object of the body is pushed on the
\* rules stored under 'rules'
handlePost(rule) ==
    ConfigServe(served4("POST", "rules", <<rule>>, 200, rule,
                        [cfgStore EXCEPT !.rules = Append(@, rule)]))

\* config-storage.js, handleGet on /config: getConfig
handleGet ==
    ConfigServe(served4("GET", "rules", <<>>, 200, [rules |-> cfgStore.rules], cfgStore))

\* config-storage.js, handlePut on /config/reorder: reorderRules stores the
\* array of the body
handlePut(rules) ==
    ConfigServe(served4("PUT", "rules", <<[rules |-> rules]>>, 200, [rules |-> rules],
                        [cfgStore EXCEPT !.rules = rules]))

\* values of a numeric field: a number, the string of one, a string that
\* is none
S_five == <<"5">>
S_ten == <<"1", "0">>
S_abc == <<"a", "b", "c">>
FieldValues == {Number(S_five), S_five, S_abc}

S_status == <<"4", "1", "8">>
DocRules ==
    {RuleDoc("a", limit, Number(S_ten), "customResponse", statusCode) :
        limit \in FieldValues, statusCode \in {Number(S_status), S_status}}
Docs == {ConfigDoc(S_version, <<rule>>) : rule \in DocRules}

\* the document of the last response, when it was one to GET /config
LastGot == IF cfgOut # <<>> /\ cfgOut[Len(cfgOut)].op = "GET"
           THEN {cfgOut[Len(cfgOut)].reply} ELSE {}

\* the arrays a client sends to reorder the rules stored: the rules in
\* reverse order, all but the first, and none
RECURSIVE Reverse(_)
Reverse(q) == IF q = <<>> THEN <<>> ELSE Append(Reverse(Tail(q)), Head(q))
Reorderings(rules) ==
    {Reverse(rules), <<>>} \cup (IF rules = <<>> THEN {} ELSE {Tail(rules)})

NextConfig ==
    \/ \E config \in Docs \cup {d \in LastGot : "version" \in DOMAIN d} : PostDocument(config)
    \/ GetDocument
    \/ \E rule \in Docs \cup DocRules \cup LastGot : handlePost(rule)
    \/ handleGet
    \/ \E rules \in Reorderings(cfgStore.rules) : handlePut(rules)

SpecConfig == Init /\ [][NextConfig]_vars

\* the document D with its numeric fields as numbers
Coerced(config) ==
    ConfigDoc(config.version,
              [k \in DOMAIN config.rules |->
                  [config.rules[k] EXCEPT !.rateLimit.limit = toNumber(@),
                                          !.rateLimit.period = toNumber(@),
                                          !.action.statusCode = toNumber(@)]])

\* C27: POST /config with a document D followed by GET /config returns a
\* document equivalent to D with its numeric fields coerced to numbers, and
\* posting the returned document again stores the same document.
C27_PostThenGet ==
    \A i \in 1..Len(cfgOut) :
        /\ (/\ i + 1 <= Len(cfgOut)
            /\ cfgOut[i].op = "POST" /\ cfgOut[i + 1].op = "GET"
            /\ cfgOut[i].class = cfgOut[i + 1].class
            /\ cfgOut[i].sent[1] \in Docs)
           => cfgOut[i + 1].reply = Coerced(cfgOut[i].sent[1])
        /\ (/\ i + 2 <= Len(cfgOut)
            /\ cfgOut[i].op = "POST" /\ cfgOut[i + 1].op = "GET" /\ cfgOut[i + 2].op = "POST"
            /\ cfgOut[i].class = cfgOut[i + 1].class /\ cfgOut[i].class = cfgOut[i + 2].class
            /\ cfgOut[i + 2].sent[1] = cfgOut[i + 1].reply)
           => cfgOut[i + 2].after = cfgOut[i].after

\* the rules of a list, each with the number of times it is there
Count(rules, rule) == Cardinality({k \in DOMAIN rules : rules[k] = rule})
SameRules(a, b) ==
    /\ Len(a) = Len(b)
    /\ \A k \in DOMAIN a : Count(a, a[k]) = Count(b, a[k])

\* C28: after PUT /config/reorder the stored ruleset contains exactly the
\* rules that were stored before the call, only possibly in a different
\* order.
C28_ReorderKeepsRules ==
    \A i \in 1..Len(cfgOut) :
        cfgOut[i].op = "PUT" => SameRules(cfgOut[i].before.rules, cfgOut[i].after.rules)

---------------------------------------------------------------------------
(* The config cache: config-manager.js, and getConfig of fingerprint.js *)

\* number of half-TTL clock steps of a config behaviour
MaxHalves == 3
\* number of requests the worker serves in a config behaviour
MaxAsked == 3

\* const CONFIG_CACHE_TTL = 60 * 1000
CONFIG_CACHE_TTL == 60 * MsPerSecond

\* getConfig(env) of fingerprint.js: the cache is served while it is younger
\* than CONFIG_CACHE_TTL; otherwise the config storage is asked, and a failed
\* fetch or a config without rules returns null
getConfigTTL(cache, reply, nowMs) ==
    IF cache.config # <<>> /\ nowMs - cache.fetchedAt < CONFIG_CACHE_TTL
    THEN [cache |-> cache, config |-> cache.config, read |-> FALSE, reply |-> <<>>]
    ELSE IF ~reply.ok \/ Len(reply.rules) = 0
    THEN [cache |-> cache, config |-> <<>>, read |-> TRUE, reply |-> <<reply>>]
    ELSE [cache |-> ConfigCache(reply.rules, nowMs), config |-> reply.rules,
          read |-> TRUE, reply |-> <<reply>>]

\* what the config storage may answer: a failure, a config without rules, and
\* two rule lists (the administrator replaces one by the other)
ConfigReplies ==
    {ConfigReply(FALSE, <<>>), ConfigReply(TRUE, <<>>), ConfigReply(TRUE, <<RuleEnf>>),
     ConfigReply(TRUE, <<RuleTeapot>>)}

\* half a CONFIG_CACHE_TTL passes
HalfTTL ==
    /\ clock < StartTime + MaxHalves * (CONFIG_CACHE_TTL \div 2)
    /\ clock' = clock + CONFIG_CACHE_TTL \div 2
    /\ UNCHANGED <<counterVars, fpOut, matchVars, pipeVars>>

\* the worker serves a request with the getConfig of config-manager.js
FetchCached(request, reply) ==
    Fetch(request, getConfig(ConfigCache(cachedConfig, lastConfigFetch), reply, clock),
          "none", MaxAsked)

\* the worker serves a request with the getConfig of fingerprint.js
FetchTTL(request, reply) ==
    Fetch(request, getConfigTTL(ConfigCache(cachedConfig, lastConfigFetch), reply, clock),
          "none", MaxAsked)

NextCached ==
    \/ HalfTTL
    \/ \E request \in {Client1, HomeReq}, reply \in ConfigReplies :
           FetchCached(request, reply)

NextTTL ==
    \/ HalfTTL
    \/ \E request \in {Client1, HomeReq}, reply \in ConfigReplies : FetchTTL(request, reply)

\* the worker as index.js imports it, and with the getConfig of fingerprint.js
SpecCached == Init /\ [][NextCached]_vars
SpecTTL == Init /\ [][NextTTL]_vars

\* at the i-th request a snapshot was cached and the refresh of it failed
RefreshFailed(i) ==
    /\ responses[i].cached # <<>>
    /\ responses[i].read
    /\ ~responses[i].reply[1].ok

\* C16: when a config refresh fails while a snapshot is cached, the snapshot
\* is kept and the request that triggered the refresh, like the later ones, is
\* matched against the stale snapshot; no 5xx is returned.
C16_StaleOnFailure ==
    \A i \in 1..Len(responses) :
        RefreshFailed(i) =>
            /\ responses[i].config = responses[i].cached
            /\ responses[i].status < 500
            /\ i < Len(responses) => responses[i + 1].cached = responses[i].cached

\* the i-th request arrives CONFIG_CACHE_TTL or more after the last successful
\* fetch of the config, or with no snapshot cached
Expired(i) ==
    \/ responses[i].cached = <<>>
    \/ responses[i].at - responses[i].fetchedAt >= CONFIG_CACHE_TTL

\* C17: getConfig asks the config storage exactly when no snapshot is cached
\* or the cached one is CONFIG_CACHE_TTL old or older, and serves the cache
\* otherwise; so a changed ruleset is used by every request that arrives
\* CONFIG_CACHE_TTL or more after the last successful fetch.
C17_ReadThroughOnExpiry ==
    \A i \in 1..Len(responses) :
        /\ responses[i].read <=> Expired(i)
        /\ ~Expired(i) => responses[i].config = responses[i].cached
        /\ (responses[i].read /\ responses[i].reply[1].ok
                /\ responses[i].reply[1].rules # <<>>) =>
               responses[i].config = responses[i].reply[1].rules

---------------------------------------------------------------------------
(* The fallback of the walk and the rules it skips *)

\* the log or simulate action the walk records for rule on request: of the
\* initial match when it matches, and else of the last matching elseIf branch
\* with such an action; <<>> when there is none
ObservedBranch(request, rule) ==
    IF ~isValidRuleStructure(rule) THEN <<>>
    ELSE IF evaluateConditions(request, rule.initialMatch.conditions, "and")
    THEN IF rule.initialMatch.action.type \in {"log", "simulate"}
         THEN <<rule.initialMatch.action>> ELSE <<>>
    ELSE LET hits == {j \in 1..Len(rule.elseIfActions) :
                        /\ evaluateConditions(request, rule.elseIfActions[j].conditions,
                                              LogicOrAnd(rule.elseIfActions[j].logic))
                        /\ rule.elseIfActions[j].action.type \in {"log", "simulate"}}
         IN  IF hits = {} THEN <<>>
             ELSE <<rule.elseIfActions[CHOOSE j \in hits : \A l \in hits : j >= l].action>>

\* the valid rules of the input that carry an elseAction, and those with a
\* log/simulate match
ElseRules ==
    {i \in 1..Len(mIn[1].rules) :
        isValidRuleStructure(mIn[1].rules[i]) /\ mIn[1].rules[i].elseAction # NoAction}
ObservedRules ==
    {i \in 1..Len(mIn[1].rules) : ObservedBranch(mIn[1].request, mIn[1].rules[i]) # <<>>}
LastOf(S) == CHOOSE i \in S : \A j \in S : i >= j

\* what the walk falls back to when no terminal action matched
Fallback ==
    IF ElseRules # {}
    THEN <<Matched(mIn[1].rules[LastOf(ElseRules)],
                   mIn[1].rules[LastOf(ElseRules)].elseAction)>>
    ELSE IF ObservedRules # {}
    THEN <<Matched(mIn[1].rules[LastOf(ObservedRules)],
                   ObservedBranch(mIn[1].request, mIn[1].rules[LastOf(ObservedRules)])[1])>>
    ELSE <<>>

\* the stores the no-match case is tried on: empty, and with a stored list
SomeStores ==
    {[k \in {} |-> <<>>],
     [k \in {S_rate_limit \o <<"a">> \o S_default} |-> <<StartTime>>]}

\* C11: when no terminal action matched, findMatchingRule returns the last
\* else fallback of a valid rule if there is one, otherwise the last matched
\* log/simulate rule, otherwise null; on null the worker forwards the request
\* to the origin and leaves the counter store as it is.
C11_FallbackOrder ==
    (mRet # <<>> /\ TerminalRules = {}) =>
        /\ mRet[1] = Fallback
        /\ mRet[1] = <<>> =>
               \A store \in SomeStores :
                   LET out == workerFetch(mIn[1].request, mIn[1].rules, store, clock, "none")
                   IN  /\ out.response = originResponse(mIn[1].request)
                       /\ out.store = store
                       /\ out.matched = <<>>

\* the walk ended without a terminal match, with an else fallback and a
\* log/simulate match of another rule recorded: the else fallback is returned
C11_Witness ==
    /\ mRet # <<>> /\ TerminalRules = {}
    /\ mSt.else # <<>> /\ mSt.log # <<>>
    /\ mSt.else[1].rule # mSt.log[1].rule
    /\ LastOf(ElseRules) < LastOf(ObservedRules)
    /\ mRet[1] = mSt.else

\* the rules with elseIfActions and no elseAction
Skipped ==
    {i \in 1..Len(mIn[1].rules) :
        Len(mIn[1].rules[i].elseIfActions) > 0 /\ mIn[1].rules[i].elseAction = NoAction}

\* C12: a rule with elseIfActions and no elseAction is skipped: the result on
\* the ruleset equals the result on the ruleset with that rule removed.
C12_InvalidRuleSkipped ==
    mRet # <<>> =>
        \A i \in Skipped :
            mRet[1] = findMatchingRule(mIn[1].request, RemoveAt(mIn[1].rules, i))

\* a skipped rule whose initial match holds for the request stood before the
\* rule that was returned
C12_Witness ==
    /\ mRet # <<>> /\ mRet[1] # <<>>
    /\ \E i \in Skipped :
           /\ evaluateConditions(mIn[1].request, mIn[1].rules[i].initialMatch.conditions,
                                 "and")
           /\ \E j \in (i + 1)..Len(mIn[1].rules) : mRet[1][1].rule = mIn[1].rules[j]
           /\ \A j \in 1..Len(mIn[1].rules) : mRet[1][1].rule = mIn[1].rules[j] => j > i

---------------------------------------------------------------------------
(* The logic of the initial match, and the else fallback of a matched rule *)

\* the conditions of the initial match of rule under the rule's own logic
ownLogicMatches(request, rule) ==
    evaluateConditions(request, rule.initialMatch.conditions,
                       LogicOrAnd(rule.initialMatch.logic))

\* C31: findMatchingRule evaluates a rule's initialMatch.conditions under the
\* rule's initialMatch.logic: a valid rule the walk has evaluated, whose
\* conditions hold under its own logic and whose action is terminal, is the
\* rule returned, with the action of its initial match.
C31_InitialMatchOwnLogic ==
    \A i \in mSeen :
        LET rule == mIn[1].rules[i] IN
        (ownLogicMatches(mIn[1].request, rule)
            /\ rule.initialMatch.action.type \in TerminalActions)
        => mRet = <<<<Matched(rule, rule.initialMatch.action)>>>>

\* the branches of rule that the walk evaluated true on request
BranchMatched(request, rule) ==
    \/ initialMatches(request, rule)
    \/ \E j \in 1..Len(rule.elseIfActions) :
           evaluateConditions(request, rule.elseIfActions[j].conditions,
                              LogicOrAnd(rule.elseIfActions[j].logic))

\* C38: findMatchingRule never returns a rule's elseAction for a request on
\* which that rule's initialMatch or one of its elseIf branches evaluated true.
C38_NoElseOfMatchedRule ==
    (mRet # <<>> /\ mSt.res = <<>> /\ mSt.else # <<>>) =>
        ~BranchMatched(mIn[1].request, mRet[1][1].rule)

---------------------------------------------------------------------------
(* Requests in flight on one key: failures, info queries and the list order *)

\* number of requests of a behaviour that end before their storage.put
MaxAbandoned == 1

\* a request for the introspection path
InfoReq == MkRequest(S_GET, S_info, Hdr(S_ip1, S_ua1), NoCf, Null, FALSE)

\* limit 2 in one second for each client IP
RuleF2 == MkRule(<<"f">>, 2, 1, <<F("", "clientIP")>>, ApiMatch(Action("rateLimit")),
                 <<>>, NoAction)

\* a handler that persists the pruned list and fails before it decides
prunedThenFailed(store, r) ==
    storagePut(store, r.key,
               pruneWindow(storageGet(store, r.key), r.now, r.period * MsPerSecond))

\* the store when RateLimiter.fetch ends before the storage.put of
\* checkRateLimit: the digest, storage.get or storage.put rejected and the
\* catch block answers, or the caller is gone; nothing was written
failedBeforePut(store, r) == store

\* a suspended request ends without its transaction; the catch block of
\* RateLimiter.fetch answers errorResponse("Unexpected error", 500)
DoAbandon(i) ==
    /\ i \in 1..Len(inflight)
    /\ Len(responses) < MaxAbandoned
    /\ storage' = failedBeforePut(storage, inflight[i])
    /\ inflight' = RemoveAt(inflight, i)
    /\ responses' = Append(responses, [key |-> inflight[i].key, now |-> inflight[i].now,
                                        status |-> 500])
    /\ UNCHANGED <<clock, log, fpOut, matchVars, cachedConfig, lastConfigFetch,
                   cfgStore, cfgOut>>

\* the requests of one client under the rule with a fingerprint
NextFlight ==
    \/ Tick
    \/ DoReceive(Client1, RuleF2)
    \/ \E i \in 1..MaxInflight : DoTransact(i)
    \/ \E i \in 1..MaxInflight : DoAbandon(i)

SpecFlight == Init /\ [][NextFlight]_vars

C37_ListNonDecreasing ==
    \A k \in DOMAIN storage :
        \A n \in 1..(Len(storage[k]) - 1) : storage[k][n] <= storage[k][n + 1]

\* enforced requests and info queries of one client on the key of rule "a"
NextInfo ==
    \/ Tick
    \/ \E request \in {Client1, InfoReq} : DoHandle(request, RuleA2)

SpecInfo == Init /\ [][NextInfo]_vars

\* C35: a rate-limit info query does not consume quota: the list persisted by
\* getRateLimitInfo holds no timestamp that was not stored before, so a later
\* enforced request sees the remaining count it would see without the query.
C35_InfoConsumesNothing ==
    \A i \in 1..Len(log) :
        log[i].info =>
            /\ Len(log[i].after) <= Len(log[i].before)
            /\ \A n \in 1..Len(log[i].after) :
                   SeqIncludes(log[i].before, log[i].after[n])

---------------------------------------------------------------------------
(* The counter's own evaluation of the rule the matcher returned *)

\* the action in the body RateLimiter.fetch answers with: of the initial match
\* when the object finds it matching, and else rule.elseAction || allow
reportedAction(rule, r) ==
    IF r.matches THEN rule.initialMatch.action
    ELSE IF rule.elseAction # NoAction THEN rule.elseAction
    ELSE Action("allow")

\* C39: for every request for which the matcher returns a rule, whichever
\* branch produced the match, the counter runs a transaction for the key of
\* the request and reports the action of the branch the matcher selected:
\* its own evaluation of the rule on the request it receives agrees.
C39_CounterFollowsMatcher ==
    \A i \in 1..Len(responses) :
        responses[i].matched # <<>> =>
            LET m == findMatchingRule(responses[i].request, responses[i].config)[1]
                r == received(responses[i].request, m.rule, responses[i].at)
            IN  /\ r.matches
                /\ reportedAction(m.rule, r) = m.action

---------------------------------------------------------------------------
(* Concurrent refreshes of the config cache: config-manager.js *)

\* number of calls of getConfig that ask the config storage in a behaviour
MaxRefreshes == 2

\* the rule lists the administrator stores, one replacing the other
StoredConfigs == {<<RuleA1>>, <<RuleA2>>}

\* a call of fetchAndUpdateConfig that awaits configStorage.fetch, and one
\* whose GET the config storage has answered with the rules it held
Sent == [stage |-> "sent", rules |-> <<>>, readAt |-> 0]
Answered(rules, at) == [stage |-> "read", rules |-> rules, readAt |-> at]

InitRefresh ==
    /\ clock = StartTime
    /\ storage = [k \in {} |-> <<>>]
    /\ inflight = <<>>
    /\ log = <<>>
    /\ fpOut = <<>>
    /\ MatchIdle
    /\ cachedConfig = <<>>
    /\ lastConfigFetch = 0
    /\ responses = <<>>
    /\ cfgStore \in {[rules |-> rules, config |-> <<>>] : rules \in StoredConfigs}
    /\ cfgOut = <<>>

\* the administrator replaces the stored rules
StoreWrite ==
    /\ \E rules \in StoredConfigs \ {cfgStore.rules} :
           cfgStore' = [cfgStore EXCEPT !.rules = rules]
    /\ UNCHANGED <<clock, counterVars, fpOut, matchVars, cachedConfig, lastConfigFetch,
                   responses, cfgOut>>

\* getConfig finds no cached config and calls fetchAndUpdateConfig, which
\* awaits the answer of the config storage
RefreshStart ==
    /\ cachedConfig = <<>>
    /\ Cardinality({i \in 1..Len(inflight) : inflight[i] = Sent}) + Len(cfgOut)
           < MaxRefreshes
    /\ inflight' = Append(inflight, Sent)
    /\ UNCHANGED <<clock, storage, log, fpOut, matchVars, pipeVars>>

\* the config storage serves the GET of a refresh from what it holds now
RefreshRead(i) ==
    /\ i \in 1..Len(inflight)
    /\ inflight[i] = Sent
    /\ inflight' = [inflight EXCEPT ![i] = Answered(cfgStore.rules, clock)]
    /\ cfgOut' = Append(cfgOut, [rules |-> cfgStore.rules, at |-> clock])
    /\ UNCHANGED <<clock, storage, log, fpOut, matchVars, cachedConfig, lastConfigFetch,
                   responses, cfgStore>>

\* the answer reaches the worker and fetchAndUpdateConfig goes on: the cache
\* takes the rules of the answer and lastConfigFetch the time it is now
RefreshEnd(i) ==
    /\ i \in 1..Len(inflight)
    /\ inflight[i].stage = "read"
    /\ \E cache \in {fetchAndUpdateConfig(ConfigCache(cachedConfig, lastConfigFetch),
                                           ConfigReply(TRUE, inflight[i].rules), clock)} :
           /\ cachedConfig' = cache.config
           /\ lastConfigFetch' = cache.fetchedAt
    /\ inflight' = RemoveAt(inflight, i)
    /\ UNCHANGED <<clock, storage, log, fpOut, matchVars, responses, cfgStore, cfgOut>>

NextRefresh ==
    \/ Tick
    \/ StoreWrite
    \/ RefreshStart
    \/ \E i \in 1..MaxRefreshes : RefreshRead(i)
    \/ \E i \in 1..MaxRefreshes : RefreshEnd(i)

SpecRefresh == InitRefresh /\ [][NextRefresh]_vars

\* C40: when several requests refresh the config concurrently, the cached
\* snapshot does not regress: once all refreshes are complete, cachedConfig
\* is the ruleset most recently read from the config storage and
\* lastConfigFetch is not older than that read.
C40_NoRegression ==
    (inflight = <<>> /\ cfgOut # <<>>) =>
        /\ cachedConfig = cfgOut[Len(cfgOut)].rules
        /\ lastConfigFetch >= cfgOut[Len(cfgOut)].at

=========================================================================
